---------------------------- MODULE Spec2Model ----------------------------
(***************************************************************************)
(* Model of lichensio/api_server: the employee store (employees, schedule  *)
(* rows, holidays), the service operations LoadEmployeesFromInput and      *)
(* FetchEmployeeSchedule, and the utilities they use (MonthStringToNumber, *)
(* WeekTypeForDate, the "15:04" and "2006-01-02" text conversions and the  *)
(* calendar arithmetic of Go's time package as the code calls it).         *)
(***************************************************************************)
EXTENDS Integers, Sequences, FiniteSets, TLC

VARIABLES
    employees,   \* the employees table, in insertion order
    schedules,   \* the schedules table, in insertion order
    holidays,    \* the holidays table: a set of rows keyed by HolidayDate
    pc,          \* "idle", or the name of the operation that has just returned
    args,        \* the arguments of that operation
    ret,         \* what that operation returned
    calls,       \* the calls running at the same time: where each is in
                 \* its code, and its local variables
    tables       \* the tables of the database that exist

vars == <<employees, schedules, holidays, pc, args, ret, calls, tables>>

\* Body applied to the value of v: v is evaluated once, whatever the number
\* of places Body uses it in
Bind(v, Body(_)) == CHOOSE y \in {Body(x) : x \in {v}} : TRUE

-----------------------------------------------------------------------------
(* Bounds of the model.                                                    *)

\* first calendar year of the model (the year of the repository's test data)
BaseYear == 2024
\* number of calendar years, from BaseYear, that dates are drawn from
MaxYears == 4
\* number of calendar years, from BaseYear, a month projection is asked for
MaxFetchYears == 2
\* capacity of the employees table while month projections are served
MaxEmployees == 1
\* capacity of the employees table when only loads are run
MaxLoaded == 2
\* capacity of the holidays table
MaxHolidays == 2
\* anchors of the phase resolver are drawn every AnchorStride days
AnchorStride == 5
\* number of month projections that run at the same time
MaxCalls == 2
\* clock times are drawn every ClockStride minutes of the day
ClockStride == 120
\* length of the entries CalculateMonthlyHours is given
MaxEntries == 2
\* number of time slots of one entry
MaxSlots == 2
\* number of elements of an array of a hashed payload
MaxElems == 2
\* number of schedule rows saved through the repository
MaxRows == 2

-----------------------------------------------------------------------------
(* Calendar arithmetic: Go's time.Date, Time.Date, Time.Weekday,           *)
(* Time.AddDate and Time.ISOWeek, on days counted from 1970-01-01.         *)

\* time.Monday and time.Thursday of time.Weekday (Sunday is 0)
Monday == 1
Thursday == 4

\* time.Weekday.String
WeekdayNames == <<"Sunday", "Monday", "Tuesday", "Wednesday", "Thursday",
                  "Friday", "Saturday">>

\* time.Month.String / the long month names time.Parse("January", ..) accepts
MonthNames == <<"January", "February", "March", "April", "May", "June", "July",
                "August", "September", "October", "November", "December">>

\* days before the first of each month in a non-leap year (time.daysBefore)
daysBefore == <<0, 31, 59, 90, 120, 151, 181, 212, 243, 273, 304, 334, 365>>

isLeap(year) == year % 4 = 0 /\ (year % 100 # 0 \/ year % 400 = 0)

\* days from 1970-01-01 to January 1 of year (year >= 1970)
daysSinceEpoch(year) ==
    365 * (year - 1970) + ((year - 1969) \div 4) - ((year - 1901) \div 100)
        + ((year - 1601) \div 400)

\* time.Date(year, month, day, 0, 0, 0, 0, time.UTC): month and day are
\* normalised, so month 13 is January of the next year and day 0 is the last
\* day of the previous month.
Date(year, month, day) ==
    LET m0 == month - 1
        y  == year + (m0 \div 12)
        m  == (m0 % 12) + 1
    IN  daysSinceEpoch(y) + daysBefore[m]
          + (IF isLeap(y) /\ m >= 3 THEN 1 ELSE 0) + (day - 1)

\* the calendar years a day of the model can fall in
CivilYears == (BaseYear - 1) .. (BaseYear + MaxYears + 1)

\* Time.Date(): the civil date [year, month, day, yday] of day number n
absDate(n) ==
    LET year == CHOOSE y \in CivilYears :
                    daysSinceEpoch(y) <= n /\ n < daysSinceEpoch(y + 1)
        yday == n - daysSinceEpoch(year)
        leapDay == isLeap(year) /\ yday = 31 + 29 - 1
        day0 == IF isLeap(year) /\ yday > 31 + 29 - 1 THEN yday - 1 ELSE yday
        m0 == day0 \div 31
        month0 == IF day0 >= daysBefore[m0 + 2] THEN m0 + 1 ELSE m0
    IN  IF leapDay
        THEN [year |-> year, month |-> 2, day |-> 29, yday |-> yday]
        ELSE [year |-> year, month |-> month0 + 1,
              day |-> day0 - daysBefore[month0 + 1] + 1, yday |-> yday]

\* the days of the model: the years from BaseYear on, with a margin for the
\* week and month arithmetic at both ends
FirstDay == daysSinceEpoch(BaseYear)
LastDay == daysSinceEpoch(BaseYear + MaxYears) - 1
DayRange == (FirstDay - 7) .. (LastDay + 40)

\* absDate, tabulated over the days of the model
civil == [n \in DayRange |-> absDate(n)]

\* Time.Weekday(): 0 is Sunday; 1970-01-01 was a Thursday
Weekday(n) == (n + Thursday) % 7

\* Time.AddDate(years, months, days)
AddDate(n, years, months, days) ==
    LET c == civil[n]
    IN  Date(c.year + years, c.month + months, c.day + days)

\* Time.ISOWeek(): the year and the week number of the Thursday of n's week
ISOWeek(n) ==
    LET d0 == Thursday - Weekday(n)
        d  == IF d0 = 4 THEN -3 ELSE d0
        c  == civil[n + d]
    IN  [year |-> c.year, week |-> (c.yday \div 7) + 1]

\* ISOWeek, tabulated over the days of the model
isoWeek == [n \in (FirstDay - 4) .. (LastDay + 30) |-> ISOWeek(n)]

\* Time.Format("2006-01-02"): the text of a date, as its three numbers
FormatDate(n) == LET c == civil[n] IN <<c.year, c.month, c.day>>

-----------------------------------------------------------------------------
(* Text conversions.  A time of day is text: a sequence of characters; in  *)
(* the store it is minutes after midnight.  A date text "YYYY-MM-DD" is    *)
(* its three numbers <<year, month, day>>.                                 *)

Digits == <<"0", "1", "2", "3", "4", "5", "6", "7", "8", "9">>

isDigit(s, i) == i <= Len(s) /\ \E v \in 1..10 : Digits[v] = s[i]

digitValue(c) == (CHOOSE v \in 1..10 : Digits[v] = c) - 1

\* time.Parse("15:04", value): the hour takes one or two digits and must be
\* below 24, a colon follows, the minute takes exactly two digits and must be
\* below 60, and nothing may follow.  [ok, minutes]
ParseClock(value) ==
    LET hourLen == IF isDigit(value, 1) /\ isDigit(value, 2) THEN 2 ELSE 1
        hour == IF hourLen = 2
                THEN 10 * digitValue(value[1]) + digitValue(value[2])
                ELSE digitValue(value[1])
        rest == SubSeq(value, hourLen + 1, Len(value))
        min  == 10 * digitValue(rest[2]) + digitValue(rest[3])
    IN  IF ~isDigit(value, 1) THEN [ok |-> FALSE, minutes |-> 0]
        ELSE IF hour >= 24 THEN [ok |-> FALSE, minutes |-> 0]
        ELSE IF Len(rest) = 0 \/ rest[1] # ":" THEN [ok |-> FALSE, minutes |-> 0]
        ELSE IF ~(isDigit(rest, 2) /\ isDigit(rest, 3))
             THEN [ok |-> FALSE, minutes |-> 0]
        ELSE IF min >= 60 THEN [ok |-> FALSE, minutes |-> 0]
        ELSE IF Len(rest) > 3 THEN [ok |-> FALSE, minutes |-> 0]
        ELSE [ok |-> TRUE, minutes |-> 60 * hour + min]

\* Time.Format("15:04"): two digits, a colon, two digits
FormatClock(minutes) ==
    LET hour == minutes \div 60
        min  == minutes % 60
    IN  <<Digits[(hour \div 10) + 1], Digits[(hour % 10) + 1], ":",
          Digits[(min \div 10) + 1], Digits[(min % 10) + 1]>>

\* number of days of a month (time.daysIn)
daysIn(month, year) ==
    IF month = 2 /\ isLeap(year) THEN 29
    ELSE daysBefore[month + 1] - daysBefore[month]

\* time.Parse("2006-01-02", value): the month must be 1..12 and the day must
\* exist in that month.  [ok, date]
ParseDate(value) ==
    IF value[2] < 1 \/ value[2] > 12 THEN [ok |-> FALSE, date |-> 0]
    ELSE IF value[3] < 1 \/ value[3] > daysIn(value[2], value[1])
         THEN [ok |-> FALSE, date |-> 0]
    ELSE [ok |-> TRUE, date |-> Date(value[1], value[2], value[3])]

\* MonthStringToNumber: the number of a month name; any other text is
\* answered with 1 ("default to January on error")
MonthStringToNumber(month) ==
    IF \E i \in 1..12 : MonthNames[i] = month
    THEN CHOOSE i \in 1..12 : MonthNames[i] = month
    ELSE 1

\* WeekTypeForDate with the weeks counted from one
WeekTypeForDate_CountsFromOne(startDate, currentDate) ==
    LET startWeek == isoWeek[startDate].week
        currentWeek == isoWeek[currentDate].week
        diff == currentWeek - startWeek + 1
        weeksSinceStart == IF diff < 0 THEN diff + 52 ELSE diff
    IN  IF weeksSinceStart % 2 = 0 THEN "A" ELSE "B"

\* WeekTypeForDate with a negative difference wrapped by 53 weeks
WeekTypeForDate_Wraps53(startDate, currentDate) ==
    LET startWeek == isoWeek[startDate].week
        currentWeek == isoWeek[currentDate].week
        diff == currentWeek - startWeek
        weeksSinceStart == IF diff < 0 THEN diff + 53 ELSE diff
    IN  IF weeksSinceStart % 2 = 0 THEN "A" ELSE "B"

\* WeekTypeForDate with the week of the start date left out
WeekTypeForDate_IgnoresStart(startDate, currentDate) ==
    LET currentWeek == isoWeek[currentDate].week
        weeksSinceStart == currentWeek - 1
    IN  IF weeksSinceStart % 2 = 0 THEN "A" ELSE "B"

\* WeekTypeForDate: the phase of currentDate for an employee whose rotation
\* starts at startDate, from the two ISO week numbers
WeekTypeForDate(startDate, currentDate) ==
    LET startWeek == isoWeek[startDate].week
        currentWeek == isoWeek[currentDate].week
        diff == currentWeek - startWeek
        weeksSinceStart == IF diff < 0 THEN diff + 52 ELSE diff
    IN  IF weeksSinceStart % 2 = 0 THEN "A" ELSE "B"

-----------------------------------------------------------------------------
(* The inputs of LoadEmployeesFromInput: the employees of the test input   *)
(* (service_test.go jsonInput, cut down to a few slots) and inputs with a  *)
(* malformed slot, a malformed start date and a week key other than A, B.  *)

\* the keys of the days map of loadWeeklySchedules
DayNames == {"Monday", "Tuesday", "Wednesday", "Thursday", "Friday",
             "Saturday", "Sunday"}

Slot(start, end) == [Start |-> start, End |-> end]

c0900  == <<"0", "9", ":", "0", "0">>
c900   == <<"9", ":", "0", "0">>
c1145  == <<"1", "1", ":", "4", "5">>
c1200  == <<"1", "2", ":", "0", "0">>
c1300  == <<"1", "3", ":", "0", "0">>
c1400  == <<"1", "4", ":", "0", "0">>
c1745  == <<"1", "7", ":", "4", "5">>
c1945  == <<"1", "9", ":", "4", "5">>
c2000  == <<"2", "0", ":", "0", "0">>
c2500  == <<"2", "5", ":", "0", "0">>

\* a WeeklyScheduleInput with no slot
EmptyWeek == [d \in DayNames |-> <<>>]

Delphine ==
    [Name |-> "Delphine", StartDate |-> <<2024, 1, 8>>,
     Weeks |-> [w \in {"A", "B"} |->
        IF w = "A"
        THEN [EmptyWeek EXCEPT !["Tuesday"] =
                 <<Slot(c900, c1200), Slot(c1300, c1745)>>]
        ELSE [EmptyWeek EXCEPT !["Tuesday"] = <<Slot(c1145, c1945)>>]]]

Henny ==
    [Name |-> "Henny Honore", StartDate |-> <<2024, 2, 24>>,
     Weeks |-> [w \in {"A", "B"} |->
        IF w = "A"
        THEN [EmptyWeek EXCEPT !["Monday"] = <<Slot(c900, c1200)>>,
                               !["Saturday"] = <<Slot(c1300, c2000)>>]
        ELSE [EmptyWeek EXCEPT !["Saturday"] = <<Slot(c0900, c1400)>>]]]

\* a template with the malformed slot {"start":"25:00","end":"09:00"}
BadSlot ==
    [Name |-> "Bad Slot", StartDate |-> <<2024, 1, 8>>,
     Weeks |-> [w \in {"A"} |->
        [EmptyWeek EXCEPT !["Monday"] = <<Slot(c900, c1200)>>,
                          !["Tuesday"] = <<Slot(c2500, c0900)>>]]]

\* a template with a week key that is neither A nor B
WeekC ==
    [Name |-> "Week C", StartDate |-> <<2024, 1, 8>>,
     Weeks |-> [w \in {"C"} |->
        [EmptyWeek EXCEPT !["Monday"] = <<Slot(c900, c1200)>>]]]

\* a start date that does not exist
BadDate ==
    [Name |-> "Bad Date", StartDate |-> <<2025, 2, 29>>,
     Weeks |-> [w \in {"A"} |->
        [EmptyWeek EXCEPT !["Monday"] = <<Slot(c900, c1200)>>]]]

EmployeeInputs == {Delphine, Henny, BadSlot, WeekC, BadDate}

\* the input lists: one to MaxLoaded employees
LoadInputs ==
    UNION {[1..n -> EmployeeInputs] : n \in 1..MaxLoaded}

-----------------------------------------------------------------------------
(* The order in which Go ranges over a map is not specified: the order of  *)
(* the week keys and, in every week, of the days is chosen by the run.     *)
(* Days with no slot write nothing, so only the others are ordered.        *)

SeqPerms(S) ==
    {p \in [1..Cardinality(S) -> S] :
        \A i, j \in 1..Cardinality(S) : p[i] = p[j] => i = j}

NonEmptyDays(week) == {d \in DayNames : Len(week[d]) > 0}

DayOrders(weeks) ==
    {q \in [DOMAIN weeks ->
              UNION {SeqPerms(NonEmptyDays(weeks[w])) : w \in DOMAIN weeks}] :
        \A w \in DOMAIN weeks : q[w] \in SeqPerms(NonEmptyDays(weeks[w]))}

\* the iteration orders of one employee's load
EmpOrders(e) ==
    {[weeks |-> p, days |-> q] :
        p \in SeqPerms(DOMAIN e.Weeks), q \in DayOrders(e.Weeks)}

\* the iteration orders of a whole input list
InputOrders(input) ==
    {o \in [1..Len(input) ->
              UNION {EmpOrders(input[i]) : i \in 1..Len(input)}] :
        \A i \in 1..Len(input) : o[i] \in EmpOrders(input[i])}

-----------------------------------------------------------------------------
(* LoadEmployeesFromInput.                                                 *)

NoError == [layout |-> "", value |-> <<>>]

ParseError(layout, value) == [layout |-> layout, value |-> value]

\* UpdateSchedule as an update of the row of the employee, week type and
\* day when there is one
UpdateSchedule_OnePerDay(rows, schedule) ==
    IF \E k \in 1..Len(rows) : /\ rows[k].EmployeeID = schedule.EmployeeID
                               /\ rows[k].WeekType = schedule.WeekType
                               /\ rows[k].DayName = schedule.DayName
    THEN [k \in 1..Len(rows) |->
             IF /\ rows[k].EmployeeID = schedule.EmployeeID
                /\ rows[k].WeekType = schedule.WeekType
                /\ rows[k].DayName = schedule.DayName
             THEN [rows[k] EXCEPT !.StartTime = schedule.StartTime,
                                  !.EndTime = schedule.EndTime]
             ELSE rows[k]]
    ELSE Append(rows, [ID |-> Len(rows) + 1,
                       EmployeeID |-> schedule.EmployeeID,
                       WeekType |-> schedule.WeekType,
                       DayName |-> schedule.DayName,
                       StartTime |-> schedule.StartTime,
                       EndTime |-> schedule.EndTime])

\* repository.UpdateSchedule: Save of a row without ID inserts it with the
\* next serial ID
UpdateSchedule(rows, schedule) ==
    Append(rows, [ID |-> Len(rows) + 1,
                  EmployeeID |-> schedule.EmployeeID,
                  WeekType |-> schedule.WeekType,
                  DayName |-> schedule.DayName,
                  StartTime |-> schedule.StartTime,
                  EndTime |-> schedule.EndTime])

\* the slots of one day of loadWeeklySchedules, from slot k on: each is
\* parsed and written before the next is looked at.  [rows, err]
RECURSIVE loadDay(_, _, _, _, _, _)
loadDay(employeeID, weekType, dayName, slots, k, rows) ==
    IF k > Len(slots) THEN [rows |-> rows, err |-> NoError]
    ELSE Bind(ParseClock(slots[k].Start), LAMBDA startTime :
         IF ~startTime.ok
         THEN [rows |-> rows, err |-> ParseError("15:04", slots[k].Start)]
         ELSE Bind(ParseClock(slots[k].End), LAMBDA endTime :
         IF ~endTime.ok
         THEN [rows |-> rows, err |-> ParseError("15:04", slots[k].End)]
         ELSE Bind(UpdateSchedule(rows,
                       [EmployeeID |-> employeeID,
                        WeekType |-> weekType,
                        DayName |-> dayName,
                        StartTime |-> startTime.minutes,
                        EndTime |-> endTime.minutes]),
                   LAMBDA rows2 :
                       loadDay(employeeID, weekType, dayName, slots, k + 1,
                               rows2))))

\* loadWeeklySchedules: the days in the order dayOrder, from its j-th day on
RECURSIVE loadWeeklySchedules(_, _, _, _, _, _)
loadWeeklySchedules(employeeID, weekType, weeklySchedule, dayOrder, j, rows) ==
    IF j > Len(dayOrder) THEN [rows |-> rows, err |-> NoError]
    ELSE Bind(loadDay(employeeID, weekType, dayOrder[j],
                      weeklySchedule[dayOrder[j]], 1, rows),
              LAMBDA r :
                  IF r.err # NoError THEN r
                  ELSE loadWeeklySchedules(employeeID, weekType,
                           weeklySchedule, dayOrder, j + 1, r.rows))

\* the loop over empInput.Weeks, from the j-th week key of the order on
RECURSIVE loadWeeks(_, _, _, _, _)
loadWeeks(employeeID, empInput, order, j, rows) ==
    IF j > Len(order.weeks) THEN [rows |-> rows, err |-> NoError]
    ELSE Bind(loadWeeklySchedules(employeeID, order.weeks[j],
                  empInput.Weeks[order.weeks[j]],
                  order.days[order.weeks[j]], 1, rows),
              LAMBDA r :
                  IF r.err # NoError THEN r
                  ELSE loadWeeks(employeeID, empInput, order, j + 1, r.rows))

\* repository.LoadEmployees: Create inserts the employee with the next serial ID
LoadEmployees(emps, employee) ==
    Append(emps, [ID |-> Len(emps) + 1, Name |-> employee.Name,
                  StartDate |-> employee.StartDate])

\* LoadEmployeesFromInput going on with the next employee after an error,
\* which it returns at the end
RECURSIVE LoadEmployeesFromInput_GoesOn(_, _, _, _, _)
LoadEmployeesFromInput_GoesOn(input, orders, i, emps, rows) ==
    IF i > Len(input)
    THEN [employees |-> emps, schedules |-> rows, err |-> NoError]
    ELSE Bind(ParseDate(input[i].StartDate), LAMBDA startDate :
         IF ~startDate.ok
         THEN [LoadEmployeesFromInput_GoesOn(input, orders, i + 1, emps, rows)
                  EXCEPT !.err = ParseError("2006-01-02", input[i].StartDate)]
         ELSE Bind(LoadEmployees(emps, [Name |-> input[i].Name,
                                        StartDate |-> startDate.date]),
                   LAMBDA emps2 :
         Bind(loadWeeks(emps2[Len(emps2)].ID, input[i], orders[i], 1, rows),
              LAMBDA r :
                  IF r.err # NoError
                  THEN [LoadEmployeesFromInput_GoesOn(input, orders, i + 1,
                                                      emps2, r.rows)
                           EXCEPT !.err = r.err]
                  ELSE LoadEmployeesFromInput_GoesOn(input, orders, i + 1,
                                                     emps2, r.rows))))

\* LoadEmployeesFromInput, from the i-th employee of the input on.
\* [employees, schedules, err]
RECURSIVE LoadEmployeesFromInput(_, _, _, _, _)
LoadEmployeesFromInput(input, orders, i, emps, rows) ==
    IF i > Len(input)
    THEN [employees |-> emps, schedules |-> rows, err |-> NoError]
    ELSE Bind(ParseDate(input[i].StartDate), LAMBDA startDate :
         IF ~startDate.ok
         THEN [employees |-> emps, schedules |-> rows,
               err |-> ParseError("2006-01-02", input[i].StartDate)]
         ELSE Bind(LoadEmployees(emps, [Name |-> input[i].Name,
                                        StartDate |-> startDate.date]),
                   LAMBDA emps2 :
         Bind(loadWeeks(emps2[Len(emps2)].ID, input[i], orders[i], 1, rows),
              LAMBDA r :
                  IF r.err # NoError
                  THEN [employees |-> emps2, schedules |-> r.rows,
                        err |-> r.err]
                  ELSE LoadEmployeesFromInput(input, orders, i + 1, emps2,
                                              r.rows))))

\* CountSchedules: for every name of the input, the number of slots of the
\* weeks of the employee of that name, of the last one when several have it
RECURSIVE countWeeks(_, _)
countWeeks(weeks, keys) ==
    IF keys = {} THEN 0
    ELSE Bind(CHOOSE w \in keys : TRUE, LAMBDA w :
         Len(weeks[w]["Monday"]) + Len(weeks[w]["Tuesday"])
             + Len(weeks[w]["Wednesday"]) + Len(weeks[w]["Thursday"])
             + Len(weeks[w]["Friday"]) + Len(weeks[w]["Saturday"])
             + Len(weeks[w]["Sunday"]) + countWeeks(weeks, keys \ {w}))

CountSchedules(input) ==
    [name \in {input[i].Name : i \in 1..Len(input)} |->
        Bind(CHOOSE i \in 1..Len(input) :
                 /\ input[i].Name = name
                 /\ \A j \in (i + 1)..Len(input) : input[j].Name # name,
             LAMBDA i : countWeeks(input[i].Weeks, DOMAIN input[i].Weeks))]

\* a load of an input list that fits into a table of capacity cap
LoadInto(cap) ==
    /\ pc = "idle"
    /\ \E input \in LoadInputs :
        /\ Len(employees) + Len(input) <= cap
        /\ \E orders \in InputOrders(input) :
            \E r \in {LoadEmployeesFromInput(input, orders, 1, employees,
                                             schedules)} :
                /\ employees' = r.employees
                /\ schedules' = r.schedules
                /\ pc' = "LoadEmployeesFromInput"
                /\ args' = [input |-> input]
                /\ ret' = [err |-> r.err]
    /\ UNCHANGED <<holidays, calls, tables>>

Load == LoadInto(MaxEmployees)

LoadOnly == LoadInto(MaxLoaded)

-----------------------------------------------------------------------------
(* Holidays: the table, the provider, GetHolidaysForMonthYear.             *)

\* FetchHolidaysFromAPI(year) when the provider answers: the year's table,
\* date text to name (two of the French public holidays)
ProviderHolidays(year) ==
    {[dateStr |-> <<year, 5, 1>>, name |-> "1er mai"],
     [dateStr |-> <<year, 5, 8>>, name |-> "8 mai 1945"]}

\* repository.HolidayFindByMonthAndYear: the rows dated from the first to
\* the last day of the month
\* HolidayFindByMonthAndYear with the whole year as the range
HolidayFindByMonthAndYear_WholeYear(table, year, month) ==
    {h \in table : civil[h.HolidayDate].year = year}

\* repository.HolidayFindByMonthAndYear: the rows dated from the first to
\* the last day of the month
HolidayFindByMonthAndYear(table, year, month) ==
    Bind(Date(year, month, 1), LAMBDA startOfMonth :
    Bind(AddDate(startOfMonth, 0, 1, -1), LAMBDA endOfMonth :
        {h \in table :
            startOfMonth <= h.HolidayDate /\ h.HolidayDate <= endOfMonth}))

\* repository.HolidayCreate: an insert, refused when a row has the date
\* (HolidayDate is the primary key).  [ok, table]
HolidayCreate(table, holiday) ==
    IF \E h \in table : h.HolidayDate = holiday.HolidayDate
    THEN [ok |-> FALSE, table |-> table]
    ELSE [ok |-> TRUE, table |-> table \cup {holiday}]

\* the test of the loop of GetHolidaysForMonthYear with the month left out
inMonth_AnyMonth(date, year, month) == civil[date].year = year

\* the test of the loop of GetHolidaysForMonthYear: the date lies in the
\* requested year and month
inMonth(date, year, month) ==
    civil[date].year = year /\ civil[date].month = month

\* the loop of GetHolidaysForMonthYear over allHolidays, from entry k of
\* the iteration order on: every entry of the month is inserted and
\* appended; the loop stops at the first insert that fails.  failAt is the
\* number of the insert the store fails (0: none), writes the inserts made
\* so far.  [holidays, table, err, asked]
RECURSIVE createFrom(_, _, _, _, _, _, _, _)
createFrom(order, k, year, month, table, hols, failAt, writes) ==
    IF k > Len(order)
    THEN [holidays |-> hols, table |-> table, err |-> "", asked |-> TRUE]
    ELSE Bind(ParseDate(order[k].dateStr), LAMBDA date :
         IF ~date.ok \/ ~inMonth(date.date, year, month)
         THEN createFrom(order, k + 1, year, month, table, hols,
                         failAt, writes)
         ELSE Bind(HolidayCreate(table,
                       [HolidayDate |-> date.date,
                        HolidayName |-> order[k].name]), LAMBDA c :
              IF ~c.ok \/ writes + 1 = failAt
              THEN [holidays |-> {}, table |-> table, err |-> "create",
                    asked |-> TRUE]
              ELSE createFrom(order, k + 1, year, month, c.table,
                              hols \cup {[HolidayDate |-> date.date,
                                              HolidayName |-> order[k].name]},
                              failAt, writes + 1)))

\* GetHolidaysForMonthYear: the stored holidays of the month or, when there
\* is none, the provider's, which are stored.  env says what the store and
\* the provider do: whether the read succeeds (findOK), whether the
\* provider answers (providerOK), the iteration order of the provider's
\* table (order) and the insert that fails (failAt).  asked tells whether
\* the provider was called.  [holidays, table, err, asked]
GetHolidaysForMonthYear(table, year, month, env) ==
    IF ~env.findOK
    THEN [holidays |-> {}, table |-> table, err |-> "find", asked |-> FALSE]
    ELSE Bind(HolidayFindByMonthAndYear(table, year, month), LAMBDA found :
        IF found # {}
        THEN [holidays |-> found, table |-> table, err |-> "",
              asked |-> FALSE]
        ELSE IF ~env.providerOK
        THEN [holidays |-> {}, table |-> table, err |-> "provider",
              asked |-> TRUE]
        ELSE createFrom(env.order, 1, year, month, table, {}, env.failAt, 0))

-----------------------------------------------------------------------------
(* FetchEmployeeSchedule.                                                  *)

\* repository.GetEmployeeWithSchedules: the employee with this ID and its
\* schedule rows in stored order.  [ok, employee]
GetEmployeeWithSchedules(emps, rows, employeeID, readOK) ==
    IF readOK /\ \E i \in 1..Len(emps) : emps[i].ID = employeeID
    THEN Bind(emps[CHOOSE i \in 1..Len(emps) : emps[i].ID = employeeID],
              LAMBDA e :
                  [ok |-> TRUE,
                   employee |-> [ID |-> e.ID, Name |-> e.Name,
                                 StartDate |-> e.StartDate,
                                 Schedules |-> SelectSeq(rows,
                                     LAMBDA r : r.EmployeeID = employeeID)]])
    ELSE [ok |-> FALSE, employee |-> <<>>]

\* timeSlotsFrom with the week type of the row left unchecked
RECURSIVE timeSlotsFrom_AnyWeek(_, _, _, _)
timeSlotsFrom_AnyWeek(scheds, k, weekType, dayName) ==
    IF k > Len(scheds) THEN <<>>
    ELSE Bind(timeSlotsFrom_AnyWeek(scheds, k + 1, weekType, dayName),
              LAMBDA rest :
                  IF scheds[k].DayName = dayName
                  THEN <<[Start |-> FormatClock(scheds[k].StartTime),
                          End |-> FormatClock(scheds[k].EndTime)]>> \o rest
                  ELSE rest)

\* the inner loop: the slots of the rows of employee.Schedules, from row k
\* on, whose week type and day name are those of the day
RECURSIVE timeSlotsFrom(_, _, _, _)
timeSlotsFrom(scheds, k, weekType, dayName) ==
    IF k > Len(scheds) THEN <<>>
    ELSE IF scheds[k].WeekType = weekType /\ scheds[k].DayName = dayName
    THEN <<[Start |-> FormatClock(scheds[k].StartTime),
            End |-> FormatClock(scheds[k].EndTime)]>>
         \o timeSlotsFrom(scheds, k + 1, weekType, dayName)
    ELSE timeSlotsFrom(scheds, k + 1, weekType, dayName)

\* holidayNameOf with a key that is never found
holidayNameOf_NeverFound(hols, dateStr) == ""

\* holidayMap[dateStr], or "" when the date is no key of the map
holidayNameOf(hols, dateStr) ==
    IF \E h \in hols : FormatDate(h.HolidayDate) = dateStr
    THEN (CHOOSE h \in hols : FormatDate(h.HolidayDate) = dateStr).HolidayName
    ELSE ""

\* one MonthlySchedule entry
dayEntry(employee, hols, d) ==
    [Date |-> FormatDate(d),
     DayName |-> WeekdayNames[Weekday(d) + 1],
     HolidayName |-> holidayNameOf(hols, FormatDate(d)),
     TimeSlots |-> timeSlotsFrom(employee.Schedules, 1,
                                 WeekTypeForDate(employee.StartDate, d),
                                 WeekdayNames[Weekday(d) + 1])]

\* the day after d in the loop over the month
nextDay(d) == AddDate(d, 0, 0, 1)

\* the loop over the days, from d to lastDayOfMonth
RECURSIVE entriesFrom(_, _, _, _)
entriesFrom(employee, hols, d, lastDayOfMonth) ==
    IF d > lastDayOfMonth THEN <<>>
    ELSE <<dayEntry(employee, hols, d)>>
         \o Bind(nextDay(d), LAMBDA n :
                 entriesFrom(employee, hols, n, lastDayOfMonth))

\* lastDayOf with the step back of one day left out
lastDayOf_NoStepBack(firstDayOfMonth) == AddDate(firstDayOfMonth, 0, 1, 0)

\* the last day of the month that starts at firstDayOfMonth
lastDayOf(firstDayOfMonth) == AddDate(firstDayOfMonth, 0, 1, -1)

\* FetchEmployeeSchedule with a failure of the holidays returned to the
\* caller
FetchEmployeeSchedule_HolidaysFatal(emps, rows, table, employeeID, month, year, env) ==
    Bind(MonthStringToNumber(month), LAMBDA monthNum :
    IF monthNum = 0
    THEN [entries |-> <<>>, table |-> table, err |-> "invalid month",
          holidays |-> {}, logged |-> "", asked |-> FALSE]
    ELSE Bind(GetHolidaysForMonthYear(table, year, monthNum, env),
              LAMBDA h :
         IF h.err # ""
         THEN [entries |-> <<>>, table |-> h.table, err |-> h.err,
               holidays |-> {}, logged |-> h.err, asked |-> h.asked]
         ELSE
         Bind(GetEmployeeWithSchedules(emps, rows, employeeID,
                                       env.employeeOK), LAMBDA e :
         IF ~e.ok
         THEN [entries |-> <<>>, table |-> h.table, err |-> "failed to get",
               holidays |-> h.holidays, logged |-> h.err, asked |-> h.asked]
         ELSE Bind(Date(year, monthNum, 1), LAMBDA firstDayOfMonth :
              Bind(lastDayOf(firstDayOfMonth), LAMBDA lastDayOfMonth :
              [entries |-> entriesFrom(e.employee, h.holidays,
                                       firstDayOfMonth, lastDayOfMonth),
               table |-> h.table, err |-> "",
               holidays |-> h.holidays, logged |-> h.err,
               asked |-> h.asked])))))

\* FetchEmployeeSchedule with a failure of the employee read swallowed
FetchEmployeeSchedule_ReadSwallowed(emps, rows, table, employeeID, month, year, env) ==
    Bind(MonthStringToNumber(month), LAMBDA monthNum :
    IF monthNum = 0
    THEN [entries |-> <<>>, table |-> table, err |-> "invalid month",
          holidays |-> {}, logged |-> "", asked |-> FALSE]
    ELSE Bind(GetHolidaysForMonthYear(table, year, monthNum, env),
              LAMBDA h :
         Bind(GetEmployeeWithSchedules(emps, rows, employeeID,
                                       env.employeeOK), LAMBDA e :
         IF ~e.ok
         THEN [entries |-> <<>>, table |-> h.table, err |-> "",
               holidays |-> h.holidays, logged |-> h.err, asked |-> h.asked]
         ELSE Bind(Date(year, monthNum, 1), LAMBDA firstDayOfMonth :
              Bind(lastDayOf(firstDayOfMonth), LAMBDA lastDayOfMonth :
              [entries |-> entriesFrom(e.employee, h.holidays,
                                       firstDayOfMonth, lastDayOfMonth),
               table |-> h.table, err |-> "",
               holidays |-> h.holidays, logged |-> h.err,
               asked |-> h.asked])))))

\* FetchEmployeeSchedule.  holidays is the local variable of that name,
\* logged the error of the holidays the function logs ("" when none), asked
\* whether the provider was called.
\* [entries, table, err, holidays, logged, asked]
FetchEmployeeSchedule(emps, rows, table, employeeID, month, year, env) ==
    Bind(MonthStringToNumber(month), LAMBDA monthNum :
    IF monthNum = 0
    THEN [entries |-> <<>>, table |-> table, err |-> "invalid month",
          holidays |-> {}, logged |-> "", asked |-> FALSE]
    ELSE Bind(GetHolidaysForMonthYear(table, year, monthNum, env),
              LAMBDA h :
         Bind(GetEmployeeWithSchedules(emps, rows, employeeID,
                                       env.employeeOK), LAMBDA e :
         IF ~e.ok
         THEN [entries |-> <<>>, table |-> h.table, err |-> "failed to get",
               holidays |-> h.holidays, logged |-> h.err, asked |-> h.asked]
         ELSE Bind(Date(year, monthNum, 1), LAMBDA firstDayOfMonth :
              Bind(lastDayOf(firstDayOfMonth), LAMBDA lastDayOfMonth :
              [entries |-> entriesFrom(e.employee, h.holidays,
                                       firstDayOfMonth, lastDayOfMonth),
               table |-> h.table, err |-> "",
               holidays |-> h.holidays, logged |-> h.err,
               asked |-> h.asked])))))

\* the month texts a caller sends: the twelve names and two others
MonthTexts == {MonthNames[i] : i \in 1..12} \cup {"Brumaire", ""}

FetchYears == BaseYear .. (BaseYear + MaxFetchYears - 1)

\* an iteration order of the provider's table of a year
ProviderOrder(year) ==
    CHOOSE order \in SeqPerms(ProviderHolidays(year)) : TRUE

Env(findOK, providerOK, order, failAt, employeeOK) ==
    [findOK |-> findOK, providerOK |-> providerOK, order |-> order,
     failAt |-> failAt, employeeOK |-> employeeOK]

\* the store works; the provider answers or not (no insert fails, so the
\* iteration order does not show)
PlainEnvs(year) ==
    {Env(TRUE, providerOK, ProviderOrder(year), 0, TRUE) :
        providerOK \in BOOLEAN}

\* what the store and the provider can do during one call: all is well,
\* the read of the holidays fails, the provider fails, an insert fails
\* after any iteration order, the read of the employee fails
FaultEnvs(year) ==
    PlainEnvs(year)
        \cup {Env(FALSE, TRUE, ProviderOrder(year), 0, TRUE)}
        \cup {Env(TRUE, TRUE, order, failAt, TRUE) :
                 order \in SeqPerms(ProviderHolidays(year)), failAt \in 1..2}
        \cup {Env(TRUE, providerOK, ProviderOrder(year), 0, FALSE) :
                 providerOK \in BOOLEAN}

FetchIn(years, Envs(_)) ==
    /\ pc = "idle"
    /\ \E employeeID \in 1..(MaxEmployees + 1), month \in MonthTexts,
          year \in years :
        \E env \in Envs(year) :
        \E r \in {FetchEmployeeSchedule(employees, schedules, holidays,
                                        employeeID, month, year, env)} :
            /\ Cardinality(r.table) <= MaxHolidays
            /\ holidays' = r.table
            /\ pc' = "FetchEmployeeSchedule"
            /\ args' = [employeeID |-> employeeID, month |-> month,
                        year |-> year, env |-> env]
            /\ ret' = [err |-> r.err, entries |-> r.entries,
                       holidays |-> r.holidays, logged |-> r.logged,
                       asked |-> r.asked]
    /\ UNCHANGED <<employees, schedules, calls, tables>>

Fetch == FetchIn(FetchYears, PlainEnvs)

\* calls of one year during which the store or the provider may fail
FetchFaulty == FetchIn({BaseYear}, FaultEnvs)

-----------------------------------------------------------------------------
(* FetchEmployeeFormattedABWeek.                                           *)

\* repository.GetSchedule: the rows of an employee and a week type, in
\* stored order.  [ok, schedules]
GetSchedule(rows, employeeID, weekType, readOK) ==
    IF readOK
    THEN [ok |-> TRUE,
          schedules |-> SelectSeq(rows, LAMBDA r :
                            r.EmployeeID = employeeID
                                /\ r.WeekType = weekType)]
    ELSE [ok |-> FALSE, schedules |-> <<>>]

daysOrder ==
    <<"Monday", "Tuesday", "Wednesday", "Thursday", "Friday", "Saturday",
      "Sunday">>

\* findDayIndex with the first day for a name that is not in order
findDayIndex_FirstDay(dayName, order) ==
    IF \E i \in 1..Len(order) : order[i] = dayName
    THEN (CHOOSE i \in 1..Len(order) : order[i] = dayName) - 1
    ELSE 0

\* findDayIndex: the index, from 0, of dayName in order, or -1
findDayIndex(dayName, order) ==
    IF \E i \in 1..Len(order) : order[i] = dayName
    THEN (CHOOSE i \in 1..Len(order) : order[i] = dayName) - 1
    ELSE -1

\* emptyDays with the names of the days left unset
emptyDays_Unnamed(order) ==
    [i \in 1..7 |-> [DayName |-> "", TimeSlots |-> <<>>]]

\* the seven days of a week, named in order and without slots
emptyDays(order) ==
    [i \in 1..7 |-> [DayName |-> order[i], TimeSlots |-> <<>>]]

\* the loop over the rows of a week type, from row k on: the slot of each
\* row is appended to its day
RECURSIVE appendSlots(_, _, _)
appendSlots(days, scheds, k) ==
    IF k > Len(scheds) THEN days
    ELSE Bind(findDayIndex(scheds[k].DayName, daysOrder), LAMBDA dayIndex :
         IF dayIndex # -1
         THEN appendSlots(
                  [days EXCEPT ![dayIndex + 1].TimeSlots =
                      Append(@, [Start |-> FormatClock(scheds[k].StartTime),
                                 End |-> FormatClock(scheds[k].EndTime)])],
                  scheds, k + 1)
         ELSE appendSlots(days, scheds, k + 1))

\* FetchEmployeeFormattedABWeek.  failAt is the number of the GetSchedule
\* call the store fails (0: none).  [weeks, err]
FetchEmployeeFormattedABWeek(rows, employeeID, failAt) ==
    Bind(GetSchedule(rows, employeeID, "A", failAt # 1), LAMBDA a :
    IF ~a.ok THEN [weeks |-> <<>>, err |-> "read"]
    ELSE Bind(GetSchedule(rows, employeeID, "B", failAt # 2), LAMBDA b :
    IF ~b.ok THEN [weeks |-> <<>>, err |-> "read"]
    ELSE [weeks |->
             <<[WeekType |-> "A",
                Days |-> appendSlots(emptyDays(daysOrder), a.schedules, 1)],
               [WeekType |-> "B",
                Days |-> appendSlots(emptyDays(daysOrder), b.schedules, 1)]>>,
          err |-> ""]))

FetchAB ==
    /\ pc = "idle"
    /\ \E employeeID \in 1..(MaxEmployees + 1), failAt \in 0..2 :
        \E r \in {FetchEmployeeFormattedABWeek(schedules, employeeID,
                                               failAt)} :
            /\ pc' = "FetchEmployeeFormattedABWeek"
            /\ args' = [employeeID |-> employeeID, failAt |-> failAt]
            /\ ret' = [err |-> r.err, weeks |-> r.weeks]
    /\ UNCHANGED <<employees, schedules, holidays, calls, tables>>

-----------------------------------------------------------------------------
(* The repository used directly, as the tests of the repository do: an     *)
(* employee is created, schedule rows are saved one by one with any week   *)
(* type and day name the columns hold, and the rows are read back.         *)

\* GetEmployeeWithSchedulesByWeekType with every row of the employee
\* preloaded
GetEmployeeWithSchedulesByWeekType_AllRows(emps, rows, employeeID, weekType, readOK) ==
    IF weekType # "A" /\ weekType # "B"
    THEN [err |-> "weekType", read |-> FALSE, employee |-> <<>>]
    ELSE Bind(GetEmployeeWithSchedules(emps, rows, employeeID, readOK),
              LAMBDA e :
        IF ~e.ok THEN [err |-> "read", read |-> TRUE, employee |-> <<>>]
        ELSE [err |-> "", read |-> TRUE, employee |-> e.employee])

\* repository.GetEmployeeWithSchedulesByWeekType: the week type is tested
\* first; then the employee is read with its rows of the week type.  read
\* tells whether the store was read.  [err, read, employee]
GetEmployeeWithSchedulesByWeekType(emps, rows, employeeID, weekType, readOK) ==
    IF weekType # "A" /\ weekType # "B"
    THEN [err |-> "weekType", read |-> FALSE, employee |-> <<>>]
    ELSE Bind(GetEmployeeWithSchedules(emps, rows, employeeID, readOK),
              LAMBDA e :
        IF ~e.ok THEN [err |-> "read", read |-> TRUE, employee |-> <<>>]
        ELSE [err |-> "", read |-> TRUE,
              employee |->
                  [e.employee EXCEPT !.Schedules =
                      SelectSeq(@, LAMBDA r : r.WeekType = weekType)]])

\* the week types and day names of the rows saved: those of the service
\* and one more of each
SavedWeekTypes == {"A", "B", "C"}

SavedDayNames == {"Monday", "Tuesday", "Funday"}

SavedTimes == {<<9 * 60, 12 * 60>>, <<13 * 60, 17 * 60>>}

\* db.Create(&employee)
RepoCreate ==
    /\ pc = "idle"
    /\ Len(employees) < MaxLoaded
    /\ employees' = LoadEmployees(employees,
                         [Name |-> "Employee With Schedules",
                          StartDate |-> Date(BaseYear, 1, 8)])
    /\ pc' = "LoadEmployees"
    /\ args' = <<>>
    /\ ret' = [err |-> ""]
    /\ UNCHANGED <<schedules, holidays, calls, tables>>

\* repository.UpdateSchedule(schedule) for a stored employee
RepoSave ==
    /\ pc = "idle"
    /\ Len(schedules) < MaxRows
    /\ \E i \in 1..Len(employees), weekType \in SavedWeekTypes,
          dayName \in SavedDayNames, times \in SavedTimes :
        /\ schedules' = UpdateSchedule(schedules,
                             [EmployeeID |-> employees[i].ID,
                              WeekType |-> weekType,
                              DayName |-> dayName,
                              StartTime |-> times[1],
                              EndTime |-> times[2]])
        /\ pc' = "UpdateSchedule"
        /\ args' = <<>>
        /\ ret' = [err |-> ""]
    /\ UNCHANGED <<employees, holidays, calls, tables>>

GetByWeekType ==
    /\ pc = "idle"
    /\ \E employeeID \in 1..(MaxLoaded + 1),
          weekType \in SavedWeekTypes \cup {""}, readOK \in BOOLEAN :
        \E r \in {GetEmployeeWithSchedulesByWeekType(employees, schedules,
                       employeeID, weekType, readOK)} :
            /\ pc' = "GetEmployeeWithSchedulesByWeekType"
            /\ args' = [employeeID |-> employeeID, weekType |-> weekType,
                        readOK |-> readOK]
            /\ ret' = [err |-> r.err, read |-> r.read,
                       employee |-> r.employee]
    /\ UNCHANGED <<employees, schedules, holidays, calls, tables>>

-----------------------------------------------------------------------------
(* The phase resolver on its own: WeekTypeForDate applied to an anchor and *)
(* a date of the model.                                                    *)

Dates == FirstDay .. LastDay

\* the anchors: every AnchorStride-th day, and the start dates of the test
\* input
AnchorDates ==
    {d \in Dates : (d - FirstDay) % AnchorStride = 0}
        \cup {Date(2024, 1, 8), Date(2024, 2, 24)}

ResolvePhase ==
    /\ pc = "idle"
    /\ \E startDate \in AnchorDates, currentDate \in Dates :
        /\ pc' = "WeekTypeForDate"
        /\ args' = [startDate |-> startDate, currentDate |-> currentDate,
                    startText |-> FormatDate(startDate),
                    currentText |-> FormatDate(currentDate)]
        /\ ret' = [weekType |-> WeekTypeForDate(startDate, currentDate)]
    /\ UNCHANGED <<employees, schedules, holidays, calls, tables>>

\* the caller has read the answer; the next request can be served
\* the tables DBCreate migrates
AllTables == {"schedules", "employees", "holidays"}

Return ==
    /\ pc # "idle"
    /\ pc' = "idle"
    /\ args' = <<>>
    /\ ret' = <<>>
    /\ UNCHANGED <<employees, schedules, holidays, calls, tables>>

-----------------------------------------------------------------------------
Init ==
    /\ employees = <<>>
    /\ schedules = <<>>
    /\ holidays = {}
    /\ pc = "idle"
    /\ args = <<>>
    /\ ret = <<>>
    /\ calls = <<>>
    /\ tables = AllTables

Next ==
    \/ Load
    \/ Fetch
    \/ FetchAB
    \/ Return

Spec == Init /\ [][Next]_vars

\* loads only, into a larger employees table
LoadNext ==
    \/ LoadOnly
    \/ Return

LoadSpec == Init /\ [][LoadNext]_vars

\* loads and projections, with failures of the store and of the provider
FaultNext ==
    \/ Load
    \/ FetchFaulty
    \/ Return

FaultSpec == Init /\ [][FaultNext]_vars

-----------------------------------------------------------------------------
(* CleanupDatabase and DBDelete, one statement of the database at a time,  *)
(* and DBCreate.  ret.step is the number of the statement that comes next. *)

\* the order of the statements with employees before schedules
tableAt_EmployeesFirst(step) == <<"employees", "schedules", "holidays">>[step]

\* the table of the step-th statement of CleanupDatabase and of DBDelete
tableAt(step) == <<"schedules", "employees", "holidays">>[step]

\* the rows of a table are gone (deleted, or dropped with the table)
emptied(table) ==
    /\ schedules' = IF table = "schedules" THEN <<>> ELSE schedules
    /\ employees' = IF table = "employees" THEN <<>> ELSE employees
    /\ holidays' = IF table = "holidays" THEN {} ELSE holidays

\* the store after loads and projections: the employees and rows a load of
\* an input list into the empty store leaves, and no holiday or those of
\* May of the first year
AdminInit ==
    /\ \E input \in LoadInputs :
         \E orders \in InputOrders(input) :
           \E r \in {LoadEmployeesFromInput(input, orders, 1, <<>>, <<>>)} :
               /\ employees = r.employees
               /\ schedules = r.schedules
    /\ holidays \in {{}, HolidayFindByMonthAndYear(
                             GetHolidaysForMonthYear({}, BaseYear, 5,
                                 Env(TRUE, TRUE, ProviderOrder(BaseYear), 0,
                                     TRUE)).table, BaseYear, 5)}
    /\ pc = "idle"
    /\ args = <<>>
    /\ ret = <<>>
    /\ calls = <<>>
    /\ tables = AllTables

CleanupDatabase ==
    /\ pc = "idle"
    /\ pc' = "CleanupDatabase"
    /\ args' = <<>>
    /\ ret' = [step |-> 1, err |-> ""]
    /\ UNCHANGED <<employees, schedules, holidays, calls, tables>>

\* one Delete of CleanupDatabase: all the rows of the table, or
\* log.Fatalf when the statement fails, as it does when the table does not
\* exist
CleanupDelete ==
    /\ pc = "CleanupDatabase"
    /\ ret.step <= 3
    /\ \E ok \in BOOLEAN :
        IF ok /\ tableAt(ret.step) \in tables
        THEN /\ emptied(tableAt(ret.step))
             /\ ret' = [ret EXCEPT !.step = @ + 1]
        ELSE /\ ret' = [ret EXCEPT !.step = 4, !.err = "fatal"]
             /\ UNCHANGED <<employees, schedules, holidays>>
    /\ UNCHANGED <<pc, args, calls, tables>>

DBDelete ==
    /\ pc = "idle"
    /\ pc' = "DBDelete"
    /\ args' = <<>>
    /\ ret' = [step |-> 1, err |-> ""]
    /\ UNCHANGED <<employees, schedules, holidays, calls, tables>>

\* one DropTable of DBDelete: the table goes with its rows, or the error
\* is returned
DBDrop ==
    /\ pc = "DBDelete"
    /\ ret.step <= 3
    /\ \E ok \in BOOLEAN :
        IF ok
        THEN /\ emptied(tableAt(ret.step))
             /\ tables' = tables \ {tableAt(ret.step)}
             /\ ret' = [ret EXCEPT !.step = @ + 1]
        ELSE /\ ret' = [ret EXCEPT !.step = 4, !.err = "drop"]
             /\ UNCHANGED <<employees, schedules, holidays, tables>>
    /\ UNCHANGED <<pc, args, calls>>

\* repository.DBCreate: AutoMigrate creates the tables that do not exist
DBCreate ==
    /\ pc = "idle"
    /\ tables' = AllTables
    /\ pc' = "DBCreate"
    /\ args' = <<>>
    /\ ret' = [step |-> 4, err |-> ""]
    /\ UNCHANGED <<employees, schedules, holidays, calls>>

\* the operation has run to its end, or stopped
AdminReturn ==
    /\ pc # "idle"
    /\ ret.step = 4
    /\ Return

AdminNext ==
    \/ CleanupDatabase
    \/ CleanupDelete
    \/ DBDelete
    \/ DBDrop
    \/ DBCreate
    \/ AdminReturn

AdminSpec == AdminInit /\ [][AdminNext]_vars

\* the repository used directly, and the two weeks of an employee
RepoNext ==
    \/ RepoCreate
    \/ RepoSave
    \/ GetByWeekType
    \/ FetchAB
    \/ Return

RepoSpec == Init /\ [][RepoNext]_vars

-----------------------------------------------------------------------------
(* Month projections that run at the same time, for one employee, month    *)
(* and year (args).  Each call is a goroutine of the HTTP server running   *)
(* FetchEmployeeSchedule; a step is the code up to and including one call *)
(* of the store or of the provider.                                        *)

Calls == 1..MaxCalls

\* the months asked for: one with holidays, one without
RaceMonths == {"May", "March"}

\* the rows GetHolidaysForMonthYear inserts, in the iteration order of the
\* provider's table
RECURSIVE toCreate(_, _, _, _)
toCreate(order, k, year, month) ==
    IF k > Len(order) THEN <<>>
    ELSE Bind(ParseDate(order[k].dateStr), LAMBDA date :
         IF date.ok /\ inMonth(date.date, year, month)
         THEN <<[HolidayDate |-> date.date, HolidayName |-> order[k].name]>>
              \o toCreate(order, k + 1, year, month)
         ELSE toCreate(order, k + 1, year, month))

StartedCall ==
    [at |-> "find", holidays |-> {}, pending |-> <<>>, logged |-> "",
     err |-> "", entries |-> <<>>]

\* hs.repo.HolidayFindByMonthAndYear(year, month), and the test of its
\* result
RaceFind(p) ==
    /\ calls[p].at = "find"
    /\ \E found \in {HolidayFindByMonthAndYear(holidays, args.year,
                          MonthStringToNumber(args.month))} :
          calls' = [calls EXCEPT ![p].holidays = found,
                                 ![p].at = IF found = {} THEN "ask"
                                           ELSE "project"]
    /\ UNCHANGED <<employees, schedules, holidays, pc, args, ret, tables>>

\* FetchHolidaysFromAPI(year): the provider answers
RaceAsk(p) ==
    /\ calls[p].at = "ask"
    /\ \E order \in SeqPerms(ProviderHolidays(args.year)) :
          calls' = [calls EXCEPT
                       ![p].pending = toCreate(order, 1, args.year,
                                          MonthStringToNumber(args.month)),
                       ![p].at = "create"]
    /\ UNCHANGED <<employees, schedules, holidays, pc, args, ret, tables>>

\* one turn of the loop: hs.repo.HolidayCreate(&holiday), and the return
\* of its error or the append
RaceCreate(p) ==
    /\ calls[p].at = "create"
    /\ calls[p].pending # <<>>
    /\ \E c \in {HolidayCreate(holidays, Head(calls[p].pending))} :
          /\ holidays' = c.table
          /\ calls' = IF c.ok
                      THEN [calls EXCEPT
                               ![p].holidays = @ \cup {Head(calls[p].pending)},
                               ![p].pending = Tail(@)]
                      ELSE [calls EXCEPT
                               ![p].holidays = {},
                               ![p].pending = <<>>,
                               ![p].logged = "create",
                               ![p].at = "project"]
    /\ UNCHANGED <<employees, schedules, pc, args, ret, tables>>

\* the rest of FetchEmployeeSchedule: s.repo.GetEmployeeWithSchedules and
\* the loop over the days
RaceProject(p) ==
    /\ \/ calls[p].at = "project"
       \/ calls[p].at = "create" /\ calls[p].pending = <<>>
    /\ \E e \in {GetEmployeeWithSchedules(employees, schedules,
                                           args.employeeID, TRUE)} :
          calls' = [calls EXCEPT
              ![p].at = "done",
              ![p].err = IF e.ok THEN "" ELSE "failed to get",
              ![p].entries =
                  IF ~e.ok THEN <<>>
                  ELSE Bind(Date(args.year, MonthStringToNumber(args.month), 1),
                            LAMBDA firstDayOfMonth :
                                entriesFrom(e.employee, calls[p].holidays,
                                            firstDayOfMonth,
                                            lastDayOf(firstDayOfMonth)))]
    /\ UNCHANGED <<employees, schedules, holidays, pc, args, ret, tables>>

\* one employee of the test input is stored, the holidays table is empty,
\* and MaxCalls calls for the same employee, month and year have started
RaceInit ==
    /\ \E input \in {<<Delphine>>, <<Henny>>} :
         \E orders \in InputOrders(input) :
           \E r \in {LoadEmployeesFromInput(input, orders, 1, <<>>, <<>>)} :
               /\ employees = r.employees
               /\ schedules = r.schedules
    /\ holidays = {}
    /\ pc = "idle"
    /\ \E month \in RaceMonths, year \in FetchYears :
         args = [employeeID |-> 1, month |-> month, year |-> year]
    /\ ret = <<>>
    /\ calls = [p \in Calls |-> StartedCall]
    /\ tables = AllTables

RaceNext ==
    \E p \in Calls :
        \/ RaceFind(p)
        \/ RaceAsk(p)
        \/ RaceCreate(p)
        \/ RaceProject(p)

RaceSpec == RaceInit /\ [][RaceNext]_vars

-----------------------------------------------------------------------------
(* Durations: CalculateHours and CalculateMonthlyHours.  A duration is     *)
(* counted in minutes; the hours the code returns are the minutes / 60.    *)

MinutesPerDay == 24 * 60

\* CalculateHours with the end of a slot that crosses midnight left as it
\* is
CalculateHours_SameDay(start, end) ==
    Bind(ParseClock(start), LAMBDA startTime :
    IF ~startTime.ok THEN [minutes |-> 0, err |-> ParseError("15:04", start)]
    ELSE Bind(ParseClock(end), LAMBDA endTime :
    IF ~endTime.ok THEN [minutes |-> 0, err |-> ParseError("15:04", end)]
    ELSE [minutes |-> endTime.minutes - startTime.minutes,
          err |-> NoError]))

\* CalculateHours.  [minutes, err]
CalculateHours(start, end) ==
    Bind(ParseClock(start), LAMBDA startTime :
    IF ~startTime.ok THEN [minutes |-> 0, err |-> ParseError("15:04", start)]
    ELSE Bind(ParseClock(end), LAMBDA endTime :
    IF ~endTime.ok THEN [minutes |-> 0, err |-> ParseError("15:04", end)]
    ELSE [minutes |->
              (IF endTime.minutes < startTime.minutes
               THEN endTime.minutes + MinutesPerDay
               ELSE endTime.minutes) - startTime.minutes,
          err |-> NoError]))

\* the loops of CalculateMonthlyHours with the hours summed so far
\* returned when a slot fails
RECURSIVE hoursFrom_KeepsSum(_, _, _, _)
hoursFrom_KeepsSum(entries, i, k, totalHours) ==
    IF i > Len(entries) THEN [total |-> totalHours, err |-> NoError]
    ELSE IF k > Len(entries[i].TimeSlots)
    THEN hoursFrom_KeepsSum(entries, i + 1, 1, totalHours)
    ELSE Bind(CalculateHours(entries[i].TimeSlots[k].Start,
                             entries[i].TimeSlots[k].End), LAMBDA h :
         IF h.err # NoError THEN [total |-> totalHours, err |-> h.err]
         ELSE hoursFrom_KeepsSum(entries, i, k + 1, totalHours + h.minutes))

\* the loops of CalculateMonthlyHours, from slot k of entry i on.
\* [total, err]
RECURSIVE hoursFrom(_, _, _, _)
hoursFrom(entries, i, k, totalHours) ==
    IF i > Len(entries) THEN [total |-> totalHours, err |-> NoError]
    ELSE IF k > Len(entries[i].TimeSlots)
    THEN hoursFrom(entries, i + 1, 1, totalHours)
    ELSE Bind(CalculateHours(entries[i].TimeSlots[k].Start,
                             entries[i].TimeSlots[k].End), LAMBDA h :
         IF h.err # NoError THEN [total |-> 0, err |-> h.err]
         ELSE hoursFrom(entries, i, k + 1, totalHours + h.minutes))

CalculateMonthlyHours(entries) == hoursFrom(entries, 1, 1, 0)

\* the texts given as clock times: the times of the day every ClockStride
\* minutes, those of the examples, and texts that are no clock time
c0200 == <<"0", "2", ":", "0", "0">>
c1700 == <<"1", "7", ":", "0", "0">>
c2200 == <<"2", "2", ":", "0", "0">>
c2359 == <<"2", "3", ":", "5", "9">>
c2400 == <<"2", "4", ":", "0", "0">>
c1260 == <<"1", "2", ":", "6", "0">>
cNoColon == <<"1", "2", "0", "0">>
cEmpty == <<>>

ClockTexts ==
    {FormatClock(m) : m \in {n \in 0..(MinutesPerDay - 1) :
                                n % ClockStride = 0}}
        \cup {c0900, c900, c1700, c2200, c0200, c2359}
        \cup {c2500, c2400, c1260, cNoColon, cEmpty}

CalcHours ==
    /\ pc = "idle"
    /\ \E start \in ClockTexts, end \in ClockTexts :
        \E r \in {CalculateHours(start, end)} :
            /\ pc' = "CalculateHours"
            /\ args' = [start |-> start, end |-> end]
            /\ ret' = [minutes |-> r.minutes, err |-> r.err]
    /\ UNCHANGED <<employees, schedules, holidays, calls, tables>>

\* the slots of the entries given to CalculateMonthlyHours: two that are
\* well formed, one of them across midnight, and two that are not
SlotChoices ==
    {Slot(c0900, c1700), Slot(c2200, c0200), Slot(c2500, c0900),
     Slot(c0900, cEmpty)}

SlotLists == UNION {[1..n -> SlotChoices] : n \in 0..MaxSlots}

EntryOf(slots) ==
    [Date |-> <<BaseYear, 3, 1>>, DayName |-> "Friday", HolidayName |-> "",
     TimeSlots |-> slots]

EntryLists ==
    UNION {[1..n -> {EntryOf(slots) : slots \in SlotLists}] :
              n \in 0..MaxEntries}

CalcMonthly ==
    /\ pc = "idle"
    /\ \E entries \in EntryLists :
        \E r \in {CalculateMonthlyHours(entries)} :
            /\ pc' = "CalculateMonthlyHours"
            /\ args' = [entries |-> entries]
            /\ ret' = [total |-> r.total, err |-> r.err]
    /\ UNCHANGED <<employees, schedules, holidays, calls, tables>>

HoursNext ==
    \/ CalcHours
    \/ CalcMonthly
    \/ Return

HoursSpec == Init /\ [][HoursNext]_vars

-----------------------------------------------------------------------------
(* HashJSON.  A payload is a JSON text, here the tree it spells: a string, *)
(* a number (an integer literal: n, with 2^53 added when big), an array    *)
(* with its elements, or an object with its members in the order they are  *)
(* written.  The value json.Unmarshal decodes has the same nodes, with an  *)
(* object a map (fields: a set of members with distinct keys) and a number *)
(* a float64.                                                              *)

Node(kind, str, big, n, elems, members, fields) ==
    [kind |-> kind, str |-> str, big |-> big, n |-> n, elems |-> elems,
     members |-> members, fields |-> fields]

String(str) == Node("string", str, FALSE, 0, <<>>, <<>>, {})

Number(big, n) == Node("number", "", big, n, <<>>, <<>>, {})

Array(elems) == Node("array", "", FALSE, 0, elems, <<>>, {})

Object(members) == Node("object", "", FALSE, 0, <<>>, members, {})

Map(fields) == Node("object", "", FALSE, 0, <<>>, <<>>, fields)

Member(key, value) == [key |-> key, value |-> value]

\* the float64 nearest to the integer (2^53 when big) + n, as n: up to
\* 2^53 every integer is a float64, above it only the even ones are, and
\* an odd one goes to the neighbour whose mantissa is even
float64(big, n) ==
    IF big /\ n % 2 = 1
    THEN IF n % 4 = 1 THEN n - 1 ELSE n + 1
    ELSE n

\* json.Unmarshal into an interface{}: objects become maps, a key written
\* twice keeps its last value, and numbers become float64
RECURSIVE Unmarshal(_)
RECURSIVE unmarshalMembers(_, _, _)
unmarshalMembers(members, k, fields) ==
    IF k > Len(members) THEN fields
    ELSE unmarshalMembers(members, k + 1,
             {f \in fields : f.key # members[k].key}
                 \cup {Member(members[k].key, Unmarshal(members[k].value))})

Unmarshal(node) ==
    CASE node.kind = "number" -> Number(node.big, float64(node.big, node.n))
      [] node.kind = "array" ->
            Array([i \in 1..Len(node.elems) |-> Unmarshal(node.elems[i])])
      [] node.kind = "object" -> Map(unmarshalMembers(node.members, 1, {}))
      [] OTHER -> node

\* the keys of the payloads in the order of sort.Strings, that of their
\* bytes
KeyOrder == <<"id", "name", "week">>

sortStrings(keys) == SelectSeq(KeyOrder, LAMBDA k : k \in keys)

fieldOf(value, key) == (CHOOSE f \in value.fields : f.key = key).value

\* normalize: a map is rebuilt, key after key in sorted order, from its
\* normalized values; the elements of an array are normalized in place
RECURSIVE normalize(_)
normalize(value) ==
    CASE value.kind = "object" ->
            Bind(sortStrings({f.key : f \in value.fields}), LAMBDA keys :
            Map({Member(keys[i], normalize(fieldOf(value, keys[i]))) :
                    i \in 1..Len(keys)}))
      [] value.kind = "array" ->
            Array([i \in 1..Len(value.elems) |-> normalize(value.elems[i])])
      [] OTHER -> value

\* json.Marshal: the text of the value, here the tree it spells.  The
\* members of a map are written in the sorted order of their keys, a
\* float64 that is an integer below 1e21 with all its digits.
RECURSIVE Marshal(_)
Marshal(value) ==
    CASE value.kind = "object" ->
            Bind(sortStrings({f.key : f \in value.fields}), LAMBDA keys :
            Object([i \in 1..Len(keys) |->
                       Member(keys[i], Marshal(fieldOf(value, keys[i])))]))
      [] value.kind = "array" ->
            Array([i \in 1..Len(value.elems) |-> Marshal(value.elems[i])])
      [] OTHER -> value

\* HashJSON, up to the bytes it digests: the hash is the SHA-256 of this
\* text in hexadecimal
HashJSON(jsonString) == Marshal(normalize(Unmarshal(jsonString)))

\* the payloads hashed: leaves, arrays of up to MaxElems leaves, objects
\* of leaves under the keys id and name in either order, and these once
\* more inside an object or an array
Leaves == {String("A"), Number(FALSE, 1), Number(TRUE, 0), Number(TRUE, 1)}

ArraysOf(values) == {Array(e) : e \in UNION {[1..n -> values] :
                                                n \in 0..MaxElems}}

ObjectsOf(keys, values) ==
    {Object([i \in 1..Len(order) |-> Member(order[i], v[i])]) :
        order \in UNION {SeqPerms(ks) : ks \in SUBSET keys},
        v \in [1..Cardinality(keys) -> values]}

FlatObjects == ObjectsOf({"id", "name"}, Leaves)

FlatPayloads == Leaves \cup ArraysOf(Leaves) \cup FlatObjects

Payloads ==
    FlatPayloads
        \cup {Object(<<Member("week", t)>>) : t \in FlatPayloads}
        \cup {Array(<<t>>) : t \in FlatObjects}

\* two payloads are hashed, one call each
Hash ==
    /\ pc = "idle"
    /\ \E first \in Payloads, second \in Payloads :
        /\ pc' = "HashJSON"
        /\ args' = [first |-> first, second |-> second]
        /\ ret' = [first |-> HashJSON(first), second |-> HashJSON(second)]
    /\ UNCHANGED <<employees, schedules, holidays, calls, tables>>

HashNext ==
    \/ Hash
    \/ Return

HashSpec == Init /\ [][HashNext]_vars

\* the phase resolver only
PhaseNext == ResolvePhase

PhaseSpec == Init /\ [][PhaseNext]_vars

-----------------------------------------------------------------------------
(* What the claims are measured against: the calendar, computed without    *)
(* the operators above.                                                    *)

\* the number of days of a month of the Gregorian calendar
TrueDaysIn(month, year) ==
    IF month = 2
    THEN (IF year % 4 = 0 /\ (year % 100 # 0 \/ year % 400 = 0) THEN 29 ELSE 28)
    ELSE IF month \in {4, 6, 9, 11} THEN 30 ELSE 31

\* the weekday of a date, 0 for Sunday (Sakamoto's method)
TrueWeekday(year, month, day) ==
    LET t == <<0, 3, 2, 5, 0, 3, 5, 1, 4, 6, 2, 4>>
        y == IF month < 3 THEN year - 1 ELSE year
    IN  (y + (y \div 4) - (y \div 100) + (y \div 400) + t[month] + day) % 7

\* the Monday that starts the week (Monday through Sunday) of day n
MondayOf(n) == n - ((Weekday(n) + 6) % 7)

\* the number of weeks from the week of day a to the week of day n
WeeksBetween(a, n) == (MondayOf(n) - MondayOf(a)) \div 7

ValidMonths == {MonthNames[i] : i \in 1..12}

MonthIndex(month) == CHOOSE i \in 1..12 : MonthNames[i] = month

Exists(employeeID) == \E i \in 1..Len(employees) : employees[i].ID = employeeID

EmployeeRow(employeeID) ==
    employees[CHOOSE i \in 1..Len(employees) : employees[i].ID = employeeID]

\* the slots of the stored rows of an employee for a week type and a day
\* name, in stored order, as the texts a projection shows
StoredSlots(employeeID, weekType, dayName) ==
    LET picked == SelectSeq(schedules, LAMBDA r :
                      /\ r.EmployeeID = employeeID
                      /\ r.WeekType = weekType
                      /\ r.DayName = dayName)
    IN  [k \in 1..Len(picked) |->
            [Start |-> FormatClock(picked[k].StartTime),
             End |-> FormatClock(picked[k].EndTime)]]

Fetched == pc = "FetchEmployeeSchedule"
Resolved == pc = "WeekTypeForDate"

-----------------------------------------------------------------------------
(* Loading                                                                 *)

BadClock(slot) == ~ParseClock(slot.Start).ok \/ ~ParseClock(slot.End).ok

HasBadSlot(empInput) ==
    \E w \in DOMAIN empInput.Weeks : \E d \in DayNames :
        \E k \in 1..Len(empInput.Weeks[w][d]) : BadClock(empInput.Weeks[w][d][k])

FullyValid(empInput) == ParseDate(empInput.StartDate).ok /\ ~HasBadSlot(empInput)

\* the load reaches employee i of the input and meets an invalid slot there
MeetsBadSlot(input, i) ==
    /\ \A j \in 1..(i - 1) : FullyValid(input[j])
    /\ ParseDate(input[i].StartDate).ok
    /\ HasBadSlot(input[i])

\* C1: a load that meets a slot whose start or end is not a valid HH:MM
\* time returns an error, and has written no employee row and no schedule
\* row for the employee whose slot it is: the rows the load added belong to
\* the employees before it.
C1_BadSlotWritesNothing ==
    [][(pc = "idle" /\ pc' = "LoadEmployeesFromInput") =>
        \A i \in 1..Len(args'.input) :
            MeetsBadSlot(args'.input, i) =>
                /\ ret'.err # NoError
                /\ Len(employees') = Len(employees) + i - 1
                /\ \A k \in (Len(schedules) + 1)..Len(schedules') :
                       schedules'[k].EmployeeID <= Len(employees) + i - 1]_vars

\* C3: every stored schedule row has week type A or B.
C3_WeekTypeIsAorB ==
    \A k \in 1..Len(schedules) : schedules[k].WeekType \in {"A", "B"}

-----------------------------------------------------------------------------
(* Projection                                                              *)

\* C2: a projection asked for an existing employee and a month name that is
\* not one of the twelve month names returns the invalid-month error and no
\* entries.
C2_UnknownMonthIsAnError ==
    (Fetched /\ Exists(args.employeeID) /\ args.month \notin ValidMonths) =>
        (ret.err = "invalid month" /\ ret.entries = <<>>)

\* C4: a projection asked for an existing employee and one of the twelve
\* month names succeeds with one entry per day of that month, 28, 29, 30 or
\* 31 of them: entry i is dated day i of the month and carries the name of
\* the weekday that date falls on.
C4_OneEntryPerDay ==
    (Fetched /\ Exists(args.employeeID) /\ args.month \in ValidMonths) =>
        LET m == MonthIndex(args.month) IN
        /\ ret.err = ""
        /\ Len(ret.entries) = TrueDaysIn(m, args.year)
        /\ \A i \in 1..Len(ret.entries) :
              /\ ret.entries[i].Date = <<args.year, m, i>>
              /\ ret.entries[i].DayName =
                     WeekdayNames[TrueWeekday(args.year, m, i) + 1]

\* February of a leap year, projected: 29 entries, the last a Thursday
C4_LeapFebruary ==
    /\ Fetched /\ Exists(args.employeeID)
    /\ args.month = "February" /\ args.year = 2024
    /\ Len(ret.entries) = 29
    /\ ret.entries[29].Date = <<2024, 2, 29>>
    /\ ret.entries[29].DayName = "Thursday"

\* C5: in a projection that succeeded, the time slots of the entry of day d
\* are the stored rows of the employee whose week type is
\* WeekTypeForDate(StartDate, d) and whose day name is the weekday of d, one
\* slot per row, in stored order.
C5_SlotsAreTheStoredRows ==
    (Fetched /\ ret.err = "") =>
        \A i \in 1..Len(ret.entries) :
            LET d == ParseDate(ret.entries[i].Date).date
                anchor == EmployeeRow(args.employeeID).StartDate
            IN  ret.entries[i].TimeSlots =
                    StoredSlots(args.employeeID, WeekTypeForDate(anchor, d),
                                WeekdayNames[Weekday(d) + 1])

\* a projection with a day that has slots, of an employee who also has rows
\* of the other week type for that weekday and rows for another weekday
C5_SlotsAmongOtherRows ==
    /\ Fetched /\ ret.err = ""
    /\ \E i \in 1..Len(ret.entries) :
          /\ ret.entries[i].TimeSlots # <<>>
          /\ \E k \in 1..Len(schedules) :
                /\ schedules[k].EmployeeID = args.employeeID
                /\ schedules[k].DayName = ret.entries[i].DayName
                /\ [Start |-> FormatClock(schedules[k].StartTime),
                    End |-> FormatClock(schedules[k].EndTime)]
                       \notin {ret.entries[i].TimeSlots[j] :
                                  j \in 1..Len(ret.entries[i].TimeSlots)}
          /\ \E k \in 1..Len(schedules) :
                /\ schedules[k].EmployeeID = args.employeeID
                /\ schedules[k].DayName # ret.entries[i].DayName

-----------------------------------------------------------------------------
(* Week type                                                               *)

\* C6: the week type of the start date itself is A.
C6_StartIsA ==
    (Resolved /\ args.currentDate = args.startDate) => ret.weekType = "A"

\* a start date in an odd ISO week, resolved against itself
C6_StartInOddWeek ==
    /\ Resolved /\ args.currentDate = args.startDate
    /\ isoWeek[args.startDate].week % 2 = 1
    /\ ret.weekType = "A"

\* C7: when t and t + 14 days lie in the same ISO year, the week type of t
\* differs from that of t + 7 days and equals that of t + 14 days, for
\* every start date, the ones after t included.
C7_AlternatesWithinYear ==
    (Resolved /\ isoWeek[args.currentDate].year
                     = isoWeek[args.currentDate + 14].year) =>
        /\ ret.weekType # WeekTypeForDate(args.startDate, args.currentDate + 7)
        /\ ret.weekType = WeekTypeForDate(args.startDate, args.currentDate + 14)

\* a date whose week, and the next two, precede the week of the start date
\* in the same ISO year
C7_BeforeStartWeek ==
    /\ Resolved
    /\ isoWeek[args.currentDate].year = isoWeek[args.currentDate + 14].year
    /\ isoWeek[args.currentDate].year = isoWeek[args.startDate].year
    /\ isoWeek[args.currentDate + 14].week < isoWeek[args.startDate].week
    /\ ret.weekType # WeekTypeForDate(args.startDate, args.currentDate + 7)

\* C8: for a date on or after the start date, later years and years of 53
\* ISO weeks included, the week type is A exactly when the number of weeks
\* from the week of the start date to the week of the date is even.
C8_ParityOfWeeksElapsed ==
    (Resolved /\ args.currentDate >= args.startDate) =>
        (ret.weekType = "A"
            <=> WeeksBetween(args.startDate, args.currentDate) % 2 = 0)

\* C10: the week type is the same on every day of an ISO week, Monday
\* through Sunday, and changes on every Monday, whatever the weekday of the
\* start date; for the start date Saturday 2024-02-24, Sunday 2024-02-25 is
\* A and the days from Monday 2024-02-26 to Sunday 2024-03-03 are B.
C10_FlipsOnMondays ==
    Resolved =>
        /\ ret.weekType
              = WeekTypeForDate(args.startDate, MondayOf(args.currentDate))
        /\ Weekday(args.currentDate) = Monday =>
              ret.weekType
                  # WeekTypeForDate(args.startDate, args.currentDate - 1)
        /\ args.startDate = Date(2024, 2, 24) =>
              /\ args.currentDate = Date(2024, 2, 25) => ret.weekType = "A"
              /\ args.currentDate \in Date(2024, 2, 26)..Date(2024, 3, 3) =>
                    ret.weekType = "B"

-----------------------------------------------------------------------------
(* Holidays                                                                *)

\* an entry without its holiday name
Plain(entry) ==
    [Date |-> entry.Date, DayName |-> entry.DayName,
     TimeSlots |-> entry.TimeSlots]

\* the entries of the call of this state when nothing fails
Unfailing ==
    FetchEmployeeSchedule(employees, schedules, holidays, args.employeeID,
                          args.month, args.year,
                          Env(TRUE, TRUE, args.env.order, 0, TRUE)).entries

\* C11: when the holidays cannot be fetched (the read of the store fails,
\* the provider fails or an insert fails) and the employee can be read, the
\* projection succeeds with the dates, day names and time slots of the
\* call in which nothing fails, and every holiday name is empty.
C11_HolidayFailureIsNotFatal ==
    (/\ Fetched /\ ret.logged # ""
     /\ args.env.employeeOK /\ Exists(args.employeeID)) =>
        /\ ret.err = ""
        /\ \A i \in 1..Len(ret.entries) : ret.entries[i].HolidayName = ""
        /\ \E unfailing \in {Unfailing} :
              /\ Len(ret.entries) = Len(unfailing)
              /\ \A i \in 1..Len(ret.entries) :
                    Plain(ret.entries[i]) = Plain(unfailing[i])

\* the second insert of May failed: the first of the two holidays is
\* stored, and the projection of the 31 days has slots and no holiday
C11_SecondInsertFailed ==
    /\ Fetched /\ ret.logged = "create" /\ ret.err = ""
    /\ Cardinality(holidays) = 1
    /\ Len(ret.entries) = 31
    /\ \E i \in 1..31 : ret.entries[i].TimeSlots # <<>>
    /\ \A i \in 1..31 : ret.entries[i].HolidayName = ""

\* C12: when the employee cannot be fetched (no employee has the ID, or the
\* read fails) the projection returns an error and no entry.
C12_EmployeeFailureIsFatal ==
    (Fetched /\ (~Exists(args.employeeID) \/ ~args.env.employeeOK)) =>
        (ret.err # "" /\ ret.entries = <<>>)

\* the read of a stored employee with schedule rows failed
C12_ReadFailed ==
    /\ Fetched /\ Exists(args.employeeID) /\ ~args.env.employeeOK
    /\ \E k \in 1..Len(schedules) :
          schedules[k].EmployeeID = args.employeeID
    /\ ret.err # "" /\ ret.entries = <<>>

\* C13: in a projection that succeeded, the holiday name of a day is the
\* name of the fetched holiday of that date, and is empty for a day that
\* is the date of no fetched holiday.
C13_HolidayNameOfTheDay ==
    (Fetched /\ ret.err = "") =>
        \A i \in 1..Len(ret.entries) :
            LET on == {h \in ret.holidays :
                         <<civil[h.HolidayDate].year,
                           civil[h.HolidayDate].month,
                           civil[h.HolidayDate].day>> = ret.entries[i].Date}
            IN  IF on = {}
                THEN ret.entries[i].HolidayName = ""
                ELSE \A h \in on :
                         ret.entries[i].HolidayName = h.HolidayName

\* May with its two holidays, the days between them without a name
C13_May ==
    /\ Fetched /\ ret.err = "" /\ args.month = "May"
    /\ Cardinality(ret.holidays) = 2
    /\ ret.entries[1].HolidayName = "1er mai"
    /\ ret.entries[8].HolidayName = "8 mai 1945"
    /\ \A i \in 2..7 : ret.entries[i].HolidayName = ""

\* the rows of the provider's entries of a year that are dated in a month
ProviderRowsIn(year, month) ==
    {[HolidayDate |-> Date(e.dateStr[1], e.dateStr[2], e.dateStr[3]),
      HolidayName |-> e.name] :
        e \in {x \in ProviderHolidays(year) :
                 x.dateStr[1] = year /\ x.dateStr[2] = month}}

\* the stored holidays of a year and month
StoredIn(year, month) ==
    {h \in holidays : /\ civil[h.HolidayDate].year = year
                      /\ civil[h.HolidayDate].month = month}

\* C14: when the store holds no holiday of the year and month and the
\* provider answers, the call adds to the store the provider's entries of
\* that year and month and nothing else, and the holidays it fetched are
\* those entries.
C14_PersistsTheMonth ==
    [][(/\ pc = "idle" /\ pc' = "FetchEmployeeSchedule"
        /\ args'.month \in ValidMonths
        /\ args'.env.findOK /\ args'.env.providerOK
        /\ args'.env.failAt = 0
        /\ StoredIn(args'.year, MonthIndex(args'.month)) = {}) =>
            LET rows == ProviderRowsIn(args'.year, MonthIndex(args'.month))
            IN  /\ ret'.asked
                /\ holidays' = holidays \cup rows
                /\ ret'.holidays = rows]_vars

\* the provider was asked for May while the store held holidays of
\* another year only; the two holidays of May were fetched and stored
C14_MayFetched ==
    /\ Fetched /\ ret.asked /\ ret.logged = "" /\ args.month = "May"
    /\ Cardinality(ret.holidays) = 2
    /\ ret.holidays \subseteq holidays

-----------------------------------------------------------------------------
(* The holidays table as a cache                                           *)

\* C22: after any calls of GetHolidaysForMonthYear, with those in which
\* the provider or an insert fails, the stored holidays of a year and month
\* are none or all those the provider has for the month: no month is left
\* partly filled.
C22_MonthIsAllOrNothing ==
    \A year \in {civil[h.HolidayDate].year : h \in holidays} :
        \A month \in 1..12 :
            \/ StoredIn(year, month) = {}
            \/ StoredIn(year, month) = ProviderRowsIn(year, month)

\* C23: when the store holds a holiday of the year and month, the call
\* returns the stored holidays of the month, does not call the provider
\* and writes nothing; when it holds none the provider is called, and when
\* the provider has no holiday in the month nothing is stored, so that the
\* next call finds none again.
C23_StoreBeforeProvider ==
    [][(/\ pc = "idle" /\ pc' = "FetchEmployeeSchedule"
        /\ args'.month \in ValidMonths
        /\ args'.env.findOK) =>
            LET stored == StoredIn(args'.year, MonthIndex(args'.month))
                rows == ProviderRowsIn(args'.year, MonthIndex(args'.month))
            IN  /\ stored # {} =>
                      /\ ret'.holidays = stored
                      /\ ~ret'.asked
                      /\ holidays' = holidays
                /\ stored = {} => ret'.asked
                /\ (stored = {} /\ args'.env.providerOK /\ rows = {}) =>
                      /\ ret'.holidays = {}
                      /\ holidays' = holidays]_vars

\* May is asked for while its two holidays are stored: they are returned
\* and the provider is not called
C23_ServedFromStore ==
    /\ Fetched /\ args.month = "May" /\ args.env.findOK
    /\ ~ret.asked /\ ret.logged = ""
    /\ Cardinality(ret.holidays) = 2
    /\ ret.holidays = StoredIn(args.year, 5)

\* C24: a projection that returns an error, for a month name that is no
\* month or for an employee that does not exist, leaves the employees, the
\* schedule rows and the holidays as they were.
C24_ErrorWritesNothing ==
    [][(/\ pc = "idle" /\ pc' = "FetchEmployeeSchedule"
        /\ ret'.err # ""
        /\ args'.month \notin ValidMonths \/ ~Exists(args'.employeeID)) =>
            /\ employees' = employees
            /\ schedules' = schedules
            /\ holidays' = holidays]_vars

-----------------------------------------------------------------------------
(* Loading again                                                           *)

\* the slots of the rows of a schedules table for an employee, a week type
\* and a day name, in stored order, as texts
SlotsOf(rows, employeeID, weekType, dayName) ==
    LET picked == SelectSeq(rows, LAMBDA r :
                      /\ r.EmployeeID = employeeID
                      /\ r.WeekType = weekType
                      /\ r.DayName = dayName)
    IN  [k \in 1..Len(picked) |->
            [Start |-> FormatClock(picked[k].StartTime),
             End |-> FormatClock(picked[k].EndTime)]]

\* the slots of an input, as the texts the store gives back
InputSlots(slots) ==
    [k \in 1..Len(slots) |->
        [Start |-> FormatClock(ParseClock(slots[k].Start).minutes),
         End |-> FormatClock(ParseClock(slots[k].End).minutes)]]

\* C15: a load of one employee who is stored already, by a load of the same
\* input, leaves one employee record of that name, and for every week type
\* and weekday the rows of that record are the slots of the input: the
\* rows of the earlier load are replaced, not added to.
C15_ReloadReplaces ==
    [][(/\ pc = "idle" /\ pc' = "LoadEmployeesFromInput"
        /\ ret'.err = NoError
        /\ Len(args'.input) = 1
        /\ \E i \in 1..Len(employees) :
              employees[i].Name = args'.input[1].Name) =>
            LET e == args'.input[1]
                ids == {employees'[i].ID : i \in
                          {j \in 1..Len(employees') :
                              employees'[j].Name = e.Name}}
            IN  /\ Cardinality(ids) = 1
                /\ \A id \in ids : \A w \in DOMAIN e.Weeks :
                      \A d \in DayNames :
                          SlotsOf(schedules', id, w, d)
                              = InputSlots(e.Weeks[w][d])]_vars

-----------------------------------------------------------------------------
(* What a load stores                                                      *)

\* an input of the spec: a start date, clock times, and weeks A and B only
ValidInput(input) ==
    \A i \in 1..Len(input) :
        FullyValid(input[i]) /\ DOMAIN input[i].Weeks \subseteq {"A", "B"}

\* the number of rows of an employee and a week type
RowsOf(rows, employeeID, weekType) ==
    Cardinality({k \in 1..Len(rows) : /\ rows[k].EmployeeID = employeeID
                                       /\ rows[k].WeekType = weekType})

\* the number of slots an employee of the input has
SlotsIn(empInput) ==
    Cardinality(UNION {{<<w, d, k>> : k \in 1..Len(empInput.Weeks[w][d])} :
                          w \in DOMAIN empInput.Weeks, d \in DayNames})

\* C21: a load of a valid input into the empty store, when it succeeds,
\* leaves as many employees as the input has, and for each of them as many
\* rows of week type A and of week type B together as the employee has
\* slots in the input (the count CountSchedules gives for its name).
C21_StoresEverySlot ==
    [][(/\ pc = "idle" /\ pc' = "LoadEmployeesFromInput"
        /\ employees = <<>> /\ schedules = <<>>
        /\ ValidInput(args'.input)
        /\ ret'.err = NoError) =>
            /\ Len(employees') = Len(args'.input)
            /\ \A i \in 1..Len(args'.input) :
                  /\ employees'[i].Name = args'.input[i].Name
                  /\ RowsOf(schedules', employees'[i].ID, "A")
                        + RowsOf(schedules', employees'[i].ID, "B")
                        = SlotsIn(args'.input[i])
                  /\ SlotsIn(args'.input[i])
                        = CountSchedules(args'.input)[employees'[i].Name]]_vars

\* the two employees of the test input are loaded into the empty store:
\* three rows each
C21_BothLoaded ==
    /\ pc = "LoadEmployeesFromInput"
    /\ args.input = <<Delphine, Henny>>
    /\ ret.err = NoError
    /\ Len(employees) = 2
    /\ Len(schedules) = 6

-----------------------------------------------------------------------------
(* A load that fails                                                       *)

\* C25: a load takes the employees in the order of the input and stops at
\* the first error.  When it fails at employee k, every employee before k
\* is stored with all its schedule rows, and no employee after k has an
\* employee row or a schedule row.
C25_StopsAtFirstError ==
    [][(/\ pc = "idle" /\ pc' = "LoadEmployeesFromInput"
        /\ ret'.err # NoError) =>
            \E k \in 1..Len(args'.input) :
                /\ ~FullyValid(args'.input[k])
                /\ \A j \in 1..(k - 1) :
                      /\ FullyValid(args'.input[j])
                      /\ Len(employees') >= Len(employees) + j
                      /\ employees'[Len(employees) + j].ID
                            = Len(employees) + j
                      /\ employees'[Len(employees) + j].Name
                            = args'.input[j].Name
                      /\ \A w \in DOMAIN args'.input[j].Weeks :
                         \A d \in DayNames :
                            SlotsOf(schedules', Len(employees) + j, w, d)
                                = InputSlots(args'.input[j].Weeks[w][d])
                /\ Len(employees') <= Len(employees) + k
                /\ \A n \in 1..Len(schedules') :
                      schedules'[n].EmployeeID <= Len(employees) + k]_vars

\* the load of an employee with a malformed slot and then Henny Honore,
\* into the empty store, failed at the first: Henny Honore has no row
C25_SecondNotLoaded ==
    /\ pc = "LoadEmployeesFromInput"
    /\ args.input = <<BadSlot, Henny>>
    /\ ret.err # NoError
    /\ Len(employees) = 1
    /\ employees[1].Name = BadSlot.Name
    /\ \A n \in 1..Len(schedules) : schedules[n].EmployeeID = 1

-----------------------------------------------------------------------------
(* Calls that run at the same time                                         *)

\* the projection of the call of args when it runs alone, from the empty
\* holidays table
Alone ==
    FetchEmployeeSchedule(employees, schedules, {}, args.employeeID,
                          args.month, args.year,
                          Env(TRUE, TRUE, ProviderOrder(args.year), 0, TRUE))

\* C16: of month projections that run at the same time for the same year
\* and month, from an empty holidays table, each returns the projection it
\* returns when it runs alone, holiday names included, and no insert of a
\* holiday fails.
C16_CallsDoNotInterfere ==
    \A p \in Calls :
        calls[p].at = "done" =>
            /\ calls[p].logged = ""
            /\ calls[p].err = Alone.err
            /\ calls[p].entries = Alone.entries

-----------------------------------------------------------------------------
(* The two weeks of an employee                                            *)

FetchedAB == pc = "FetchEmployeeFormattedABWeek"

\* C17: FetchEmployeeFormattedABWeek, when it succeeds, returns two weeks,
\* A then B, each of seven days named Monday, Tuesday, Wednesday, Thursday,
\* Friday, Saturday, Sunday in that order; a day for which the employee has
\* no stored row of the week type has an empty list of slots.
C17_TwoWeeksOfSevenDays ==
    (FetchedAB /\ ret.err = "") =>
        /\ Len(ret.weeks) = 2
        /\ ret.weeks[1].WeekType = "A"
        /\ ret.weeks[2].WeekType = "B"
        /\ \A w \in 1..2 :
              /\ Len(ret.weeks[w].Days) = 7
              /\ [i \in 1..7 |-> ret.weeks[w].Days[i].DayName]
                    = <<"Monday", "Tuesday", "Wednesday", "Thursday",
                        "Friday", "Saturday", "Sunday">>
              /\ \A i \in 1..7 :
                    StoredSlots(args.employeeID, ret.weeks[w].WeekType,
                                ret.weeks[w].Days[i].DayName) = <<>>
                        => ret.weeks[w].Days[i].TimeSlots = <<>>

\* the two weeks of an employee with slots on Tuesday only, and rows of
\* both week types
C17_TuesdaysOnly ==
    /\ FetchedAB /\ ret.err = ""
    /\ ret.weeks[1].Days[2].TimeSlots # <<>>
    /\ ret.weeks[2].Days[2].TimeSlots # <<>>
    /\ \A i \in {1, 3, 4, 5, 6, 7} :
          /\ ret.weeks[1].Days[i].TimeSlots = <<>>
          /\ ret.weeks[2].Days[i].TimeSlots = <<>>

\* C26: in the two weeks FetchEmployeeFormattedABWeek returns, the slots
\* of a week type and a day are those of the stored rows of the employee
\* with that week type and day name, each once and in stored order; the
\* rows of other employees, of another week type or of a day name that is
\* no weekday are nowhere.  When the read of either week type fails, an
\* error is returned and no week.
C26_EveryRowInItsPlace ==
    FetchedAB =>
        /\ args.failAt # 0 => (ret.err # "" /\ ret.weeks = <<>>)
        /\ args.failAt = 0 =>
              /\ ret.err = ""
              /\ Len(ret.weeks) = 2
              /\ \A w \in 1..2 : \A i \in 1..7 :
                    ret.weeks[w].Days[i].TimeSlots
                        = StoredSlots(args.employeeID, <<"A", "B">>[w],
                              <<"Monday", "Tuesday", "Wednesday", "Thursday",
                                "Friday", "Saturday", "Sunday">>[i])

\* the employee has a row of a weekday of week A or B and a row of a day
\* name that is no weekday: the two weeks show one slot
C26_OddDayLeftOut ==
    /\ FetchedAB /\ ret.err = ""
    /\ \E k \in 1..Len(schedules) :
          /\ schedules[k].EmployeeID = args.employeeID
          /\ schedules[k].WeekType \in {"A", "B"}
          /\ schedules[k].DayName \notin DayNames
    /\ Cardinality({<<w, i>> \in (1..2) \X (1..7) :
                       ret.weeks[w].Days[i].TimeSlots # <<>>}) = 1

-----------------------------------------------------------------------------
(* Emptying and dropping the tables                                        *)

\* every schedule row is the row of a stored employee, and the schedules
\* table does not exist without the employees table
Referenced ==
    /\ \A k \in 1..Len(schedules) : Exists(schedules[k].EmployeeID)
    /\ "schedules" \in tables => "employees" \in tables

\* the statements run so far have emptied the schedules, then the
\* employees, then the holidays
InOrder ==
    (pc \in {"CleanupDatabase", "DBDelete"} /\ ret.err = "") =>
        /\ ret.step > 1 => schedules = <<>>
        /\ ret.step > 2 => employees = <<>>
        /\ ret.step > 3 => holidays = {}
        /\ pc = "DBDelete" =>
              \A n \in 1..3 :
                  n < ret.step => <<"schedules", "employees", "holidays">>[n]
                                      \notin tables

\* a DBDelete that returns an error has, at that step, dropped no table
\* and deleted no row
StopsAtFailure ==
    (pc = "DBDelete" /\ pc' = "DBDelete" /\ ret'.err # "") =>
        /\ tables' = tables
        /\ employees' = employees
        /\ schedules' = schedules
        /\ holidays' = holidays

\* C27: CleanupDatabase deletes the schedule rows, then the employee rows,
\* then the holiday rows, and DBDelete drops the tables in that order, so
\* that in every state between two statements each schedule row has its
\* employee; DBDelete stops at the first drop that fails and leaves the
\* tables that come after in place.
C27_SchedulesGoFirst ==
    [](Referenced /\ InOrder) /\ [][StopsAtFailure]_vars

\* DBDelete dropped the schedules table and failed at the employees
\* table: the employees and the holidays are there
C27_StoppedAtEmployees ==
    /\ pc = "DBDelete" /\ ret.err # ""
    /\ tables = {"employees", "holidays"}
    /\ employees # <<>> /\ holidays # {}
    /\ schedules = <<>>

-----------------------------------------------------------------------------
(* The employee with the rows of one week type                             *)

\* C28: GetEmployeeWithSchedulesByWeekType returns an error, and does not
\* read the store, when the week type is neither A nor B; for A or B it
\* returns the employee with its stored rows of that week type, all of
\* them and no other.
C28_RowsOfTheWeekType ==
    pc = "GetEmployeeWithSchedulesByWeekType" =>
        /\ args.weekType \notin {"A", "B"} =>
              (ret.err # "" /\ ~ret.read)
        /\ (/\ args.weekType \in {"A", "B"}
            /\ args.readOK /\ Exists(args.employeeID)) =>
              /\ ret.err = ""
              /\ ret.employee.ID = args.employeeID
              /\ ret.employee.Name = EmployeeRow(args.employeeID).Name
              /\ ret.employee.Schedules =
                    SelectSeq(schedules, LAMBDA r :
                        /\ r.EmployeeID = args.employeeID
                        /\ r.WeekType = args.weekType)

\* the employee has a row of week A and a row of week B, and is read with
\* the row of week A
C28_WeekAOnly ==
    /\ pc = "GetEmployeeWithSchedulesByWeekType"
    /\ args.weekType = "A" /\ ret.err = ""
    /\ Len(ret.employee.Schedules) = 1
    /\ \E k \in 1..Len(schedules) :
          /\ schedules[k].EmployeeID = args.employeeID
          /\ schedules[k].WeekType = "B"

-----------------------------------------------------------------------------
(* Durations                                                               *)

\* a text of the form HH:MM or H:MM with HH below 24 and MM below 60
IsClock(text) ==
    /\ Len(text) \in {4, 5}
    /\ text[Len(text) - 2] = ":"
    /\ \A i \in (1..Len(text)) \ {Len(text) - 2} :
          \E j \in 1..10 : Digits[j] = text[i]
    /\ LET v(i) == (CHOOSE j \in 1..10 : Digits[j] = text[i]) - 1
           hh == IF Len(text) = 5 THEN 10 * v(1) + v(2) ELSE v(1)
           mm == 10 * v(Len(text) - 1) + v(Len(text))
       IN  hh < 24 /\ mm < 60

\* the minute of the day such a text names
MinuteOfDay(text) ==
    LET v(i) == (CHOOSE j \in 1..10 : Digits[j] = text[i]) - 1
        hh == IF Len(text) = 5 THEN 10 * v(1) + v(2) ELSE v(1)
        mm == 10 * v(Len(text) - 1) + v(Len(text))
    IN  60 * hh + mm

\* C18: for two clock times, CalculateHours returns end - start when the
\* end is not before the start and end + 24 h - start when it is: in
\* minutes (end - start) mod 1440, never negative and below 24 hours.
\* 09:00 to 17:00 is 8 hours, 22:00 to 02:00 is 4 hours, and a start equal
\* to the end gives 0.
C18_DurationWrapsAtMidnight ==
    (pc = "CalculateHours" /\ IsClock(args.start) /\ IsClock(args.end)) =>
        LET start == MinuteOfDay(args.start)
            end == MinuteOfDay(args.end)
        IN  /\ ret.err = NoError
            /\ end >= start => ret.minutes = end - start
            /\ end < start => ret.minutes = end + 24 * 60 - start
            /\ ret.minutes = (end - start) % 1440
            /\ ret.minutes >= 0 /\ ret.minutes < 24 * 60
            /\ (args.start = c0900 /\ args.end = c1700) =>
                   ret.minutes = 8 * 60
            /\ (args.start = c2200 /\ args.end = c0200) =>
                   ret.minutes = 4 * 60
            /\ args.start = args.end => ret.minutes = 0

\* a slot across midnight: 22:00 to 02:00, 4 hours
C18_AcrossMidnight ==
    /\ pc = "CalculateHours"
    /\ args.start = c2200 /\ args.end = c0200
    /\ ret.err = NoError /\ ret.minutes = 240

\* the slots of all the entries, one after the other
RECURSIVE AllSlots(_)
AllSlots(entries) ==
    IF entries = <<>> THEN <<>>
    ELSE Head(entries).TimeSlots \o AllSlots(Tail(entries))

\* the minutes of a sequence of well-formed slots
RECURSIVE SumOfSlots(_)
SumOfSlots(slots) ==
    IF slots = <<>> THEN 0
    ELSE ((MinuteOfDay(Head(slots).End) - MinuteOfDay(Head(slots).Start))
              % 1440)
             + SumOfSlots(Tail(slots))

\* C19: CalculateMonthlyHours returns the sum of the durations of all the
\* slots of all the entries; when a slot has a start or an end that is no
\* clock time, wherever the slot is, it returns an error and the total 0.
C19_SumOrNothing ==
    pc = "CalculateMonthlyHours" =>
        LET slots == AllSlots(args.entries) IN
        IF \A k \in 1..Len(slots) :
               IsClock(slots[k].Start) /\ IsClock(slots[k].End)
        THEN ret.err = NoError /\ ret.total = SumOfSlots(slots)
        ELSE ret.err # NoError /\ ret.total = 0

\* the last slot of the last entry is malformed, after slots of 8 and 4
\* hours
C19_MalformedLast ==
    /\ pc = "CalculateMonthlyHours"
    /\ Len(args.entries) = 2
    /\ args.entries[1].TimeSlots = <<Slot(c0900, c1700), Slot(c2200, c0200)>>
    /\ args.entries[2].TimeSlots = <<Slot(c0900, c1700), Slot(c0900, cEmpty)>>
    /\ ret.err # NoError /\ ret.total = 0

-----------------------------------------------------------------------------
(* The content hash                                                        *)

\* two payloads are the same up to the order of the keys of their objects,
\* and, when anyLeaf, up to the values of their leaves, and, when anyOrder,
\* up to the order of the elements of their arrays
RECURSIVE Alike(_, _, _, _)
Alike(p, q, anyLeaf, anyOrder) ==
    IF p.kind \in {"string", "number"}
    THEN /\ q.kind \in {"string", "number"}
         /\ anyLeaf \/ p = q
    ELSE IF p.kind = "array"
    THEN /\ q.kind = "array"
         /\ Len(q.elems) = Len(p.elems)
         /\ \E at \in SeqPerms(1..Len(p.elems)) :
              /\ anyOrder \/ \A i \in 1..Len(p.elems) : at[i] = i
              /\ \A i \in 1..Len(p.elems) :
                    Alike(p.elems[i], q.elems[at[i]], anyLeaf, anyOrder)
    ELSE /\ q.kind = "object"
         /\ Len(q.members) = Len(p.members)
         /\ \E at \in SeqPerms(1..Len(p.members)) :
              \A i \in 1..Len(p.members) :
                  /\ q.members[at[i]].key = p.members[i].key
                  /\ Alike(p.members[i].value, q.members[at[i]].value,
                           anyLeaf, anyOrder)

\* C20: the canonical form HashJSON digests is the same for two payloads
\* that differ only in the order of the keys of their objects, at any
\* depth, and is not the same for two payloads that differ in the value of
\* a leaf or in the order of the elements of an array.
C20_CanonicalUpToKeyOrder ==
    pc = "HashJSON" =>
        /\ Alike(args.first, args.second, FALSE, FALSE) =>
               ret.first = ret.second
        /\ (/\ Alike(args.first, args.second, TRUE, TRUE)
            /\ ~Alike(args.first, args.second, FALSE, FALSE)) =>
               ret.first # ret.second

=============================================================================
